---- MODULE Spec2Model ----
(***************************************************************************)
(* Scene graph and interaction model of the diagram editor: shapes, text   *)
(* labels, resize handles, arrows, the scene's event handlers and the      *)
(* JSON codec.                                                             *)
(*                                                                         *)
(* Coordinates.  Positions and rectangles are integers in document units.  *)
(* A centre of a rectangle may fall on a half unit, so every point that is *)
(* derived from a centre (get_center, get_connection_point, an arrow's     *)
(* line, a label's position) is kept in HALF units: the pair <<2x, 2y>>.   *)
(***************************************************************************)
EXTENDS Integers, Sequences, FiniteSets, TLC

VARIABLES
    shapes,              \* shape id -> the shape object (NoShape: no such object)
    arrows,              \* arrow id -> the Arrow object (NoArrow: no such object)
    sceneItems,          \* QGraphicsScene's top-level items, in insertion order
    current_mode,        \* DiagramScene.current_mode
    arrow_start_shape,   \* DiagramScene._arrow_start_shape (None or a shape id)
    current_color,       \* DiagramScene.current_color
    current_label_color, \* DiagramScene.current_label_color
    text_settings,       \* DiagramScene.text_settings
    doc,                 \* the document last written by export_json
    emitted,             \* signals emitted by the last event
    grabber,             \* the resize handle holding the mouse: <<shape id, handle>>
    last,                \* the last event delivered and its arguments
    steps                \* number of drag and move events delivered so far

vars == <<shapes, arrows, sceneItems, current_mode, arrow_start_shape,
          current_color, current_label_color, text_settings, doc, emitted,
          grabber, last, steps>>

----------------------------------------------------------------------------
(* Bounds of the model *)

MaxShapes == 2
MaxArrows == 1
MaxSteps == 2
MaxZ == 1
MaxParallel == 2

(* Program constants *)

MIN_WIDTH == 40
MIN_HEIGHT == 30
TEXT_MIN_WIDTH == 20
TEXT_MIN_HEIGHT == 20
TOP_LEFT == 0
TOP_RIGHT == 1
BOTTOM_LEFT == 2
BOTTOM_RIGHT == 3
PEN_WIDTH == 2

ShapeIds == 1..MaxShapes
ArrowIds == 1..MaxArrows
None == 0
NoText == "<None>"

MODE_SELECT == "Select"
MODE_RECTANGLE == "Rectangle"
MODE_OVAL == "Oval"
MODE_DIAMOND == "Diamond"
MODE_TRIANGLE == "Triangle"
MODE_TRIANGLE_INVERTED == "Triangle Inverted"
MODE_TRIANGLE_LEFT == "Triangle Left"
MODE_TRIANGLE_RIGHT == "Triangle Right"
MODE_TEXT == "Text"
MODE_ARROW == "Arrow"
MODE_ARROW_BIDIR == "Two-Way"

ArrowModes == {MODE_ARROW, MODE_ARROW_BIDIR}
CreateModes == {MODE_RECTANGLE, MODE_OVAL, MODE_DIAMOND, MODE_TRIANGLE,
                MODE_TRIANGLE_INVERTED, MODE_TRIANGLE_LEFT,
                MODE_TRIANGLE_RIGHT, MODE_TEXT}

RectKinds == {"DiagramRect", "DiagramOval"}
PolygonKinds == {"DiagramDiamond", "DiagramTriangle", "DiagramTriangleInverted",
                 "DiagramTriangleLeft", "DiagramTriangleRight"}
BaseShapeKinds == RectKinds \cup PolygonKinds
ShapeKinds == BaseShapeKinds \cup {"DiagramText"}

Handles == {TOP_LEFT, TOP_RIGHT, BOTTOM_LEFT, BOTTOM_RIGHT}

NoShape == [kind |-> "None"]
NoArrow == [kind |-> "None"]

IsShape(s) == s.kind \in ShapeKinds
IsText(s) == s.kind = "DiagramText"
IsBaseShape(s) == s.kind \in BaseShapeKinds

----------------------------------------------------------------------------
(* Qt value types: QPointF as <<x, y>>, QRectF as [l, t, r, b], QColor *)

QRectF(p1, p2) == [l |-> p1[1], t |-> p1[2], r |-> p2[1], b |-> p2[2]]
RectWidth(rc) == rc.r - rc.l
RectHeight(rc) == rc.b - rc.t
topLeft(rc) == <<rc.l, rc.t>>
topRight(rc) == <<rc.r, rc.t>>
bottomLeft(rc) == <<rc.l, rc.b>>
bottomRight(rc) == <<rc.r, rc.b>>

\* QRectF.normalized(): a negative width or height swaps the two edges
normalized(rc) ==
    [l |-> IF rc.r < rc.l THEN rc.r ELSE rc.l,
     r |-> IF rc.r < rc.l THEN rc.l ELSE rc.r,
     t |-> IF rc.b < rc.t THEN rc.b ELSE rc.t,
     b |-> IF rc.b < rc.t THEN rc.t ELSE rc.b]

translated(rc, p) == [l |-> rc.l + p[1], t |-> rc.t + p[2],
                      r |-> rc.r + p[1], b |-> rc.b + p[2]]

\* centre of a rectangle, in half units
center2(rc) == <<rc.l + rc.r, rc.t + rc.b>>

Abs(n) == IF n < 0 THEN -n ELSE n

\* The palette: the colours the program names, as QColor.name() prints them
Palette == {"#3498db", "#2ecc71", "#e74c3c", "#9b59b6", "#e67e22", "#1abc9c",
            "#333333", "#ffffff", "#ff0000", "#000000"}

\* red, green, blue of a palette colour
RGB(c) ==
    CASE c = "#3498db" -> <<52, 152, 219>>
      [] c = "#2ecc71" -> <<46, 204, 113>>
      [] c = "#e74c3c" -> <<231, 76, 60>>
      [] c = "#9b59b6" -> <<155, 89, 182>>
      [] c = "#e67e22" -> <<230, 126, 34>>
      [] c = "#1abc9c" -> <<26, 188, 156>>
      [] c = "#333333" -> <<51, 51, 51>>
      [] c = "#ffffff" -> <<255, 255, 255>>
      [] c = "#ff0000" -> <<255, 0, 0>>
      [] OTHER -> <<0, 0, 0>>

\* QColor(name).name(): a "#rrggbb" string is kept, an SVG colour keyword is
\* translated, anything else is the invalid colour, which prints as black
QColor(c) ==
    IF c \in Palette THEN c
    ELSE IF c = "red" THEN "#ff0000"
    ELSE "#000000"

\* BaseShape._get_contrasting_color: luminance < 0.5 -> white, else dark grey
\* ((0.299 r + 0.587 g + 0.114 b) / 255 < 0.5, scaled by 2000 * 255)
get_contrasting_color(c) ==
    LET v == RGB(c) IN
    IF 2 * (299 * v[1] + 587 * v[2] + 114 * v[3]) < 255 * 1000
    THEN "#ffffff" ELSE "#333333"

----------------------------------------------------------------------------
(* Text layout.  The extent Qt gives a text depends on its content and its *)
(* font; the model keeps that dependence with an integer metric: a glyph   *)
(* advance and a line height that grow with the point size, a wider glyph  *)
(* for a bold or a monospaced font, and a fixed document margin around a   *)
(* QGraphicsTextItem (none around a QGraphicsSimpleTextItem).              *)

GlyphAdvance(family, size, bold) ==
    (size \div 2) + (IF bold THEN 1 ELSE 0) + (IF family = "Courier New" THEN 2 ELSE 0)

\* <<width, height>> of a QGraphicsTextItem
TextExtent(text, family, size, bold) ==
    <<8 + Len(text) * GlyphAdvance(family, size, bold), 8 + size + (size \div 2)>>

\* <<width, height>> of a QGraphicsSimpleTextItem
SimpleTextExtent(text, size) ==
    <<Len(text) * GlyphAdvance("Arial", size, FALSE), size + (size \div 2)>>

----------------------------------------------------------------------------
(* Shapes: BaseShape (the mixin), its seven variants, and DiagramText *)

DefaultWidth(kind) ==
    IF kind \in {"DiagramTriangleLeft", "DiagramTriangleRight"} THEN 80 ELSE 100

DefaultHeight(kind) ==
    CASE kind \in {"DiagramTriangle", "DiagramTriangleInverted"} -> 80
      [] kind \in {"DiagramTriangleLeft", "DiagramTriangleRight"} -> 100
      [] OTHER -> 60

\* _create_polygon of the polygon variants: the vertices for a width and a
\* height, in half units (so that w/2 and h/2 stay integers)
create_polygon(kind, w, h) ==
    CASE kind = "DiagramDiamond" ->
            << <<w, 0>>, <<2 * w, h>>, <<w, 2 * h>>, <<0, h>> >>
      [] kind = "DiagramTriangle" ->
            << <<w, 0>>, <<2 * w, 2 * h>>, <<0, 2 * h>> >>
      [] kind = "DiagramTriangleInverted" ->
            << <<0, 0>>, <<2 * w, 0>>, <<w, 2 * h>> >>
      [] kind = "DiagramTriangleLeft" ->
            << <<2 * w, 0>>, <<2 * w, 2 * h>>, <<0, h>> >>
      [] kind = "DiagramTriangleRight" ->
            << <<0, 0>>, <<2 * w, h>>, <<0, 2 * h>> >>
      [] OTHER -> << >>

\* the item's outline: rect() of a rectangle or an oval, polygon() of a polygon
\* variant (half units; empty for the others)
polygon(s) ==
    LET p == create_polygon(s.kind, RectWidth(s.rect), RectHeight(s.rect)) IN
    [i \in DOMAIN p |-> <<p[i][1] + 2 * s.rect.l, p[i][2] + 2 * s.rect.t>>]

\* QGraphicsItem.boundingRect(): the outline grown by half the pen width on
\* every side (the pen update_appearance sets); a text item has no pen
boundingRect(s) ==
    IF IsText(s) THEN s.rect
    ELSE [l |-> s.rect.l - (PEN_WIDTH \div 2), t |-> s.rect.t - (PEN_WIDTH \div 2),
          r |-> s.rect.r + (PEN_WIDTH \div 2), b |-> s.rect.b + (PEN_WIDTH \div 2)]

sceneBoundingRect(s) == translated(boundingRect(s), s.pos)

\* get_center: mapToScene(boundingRect().center()), in half units
get_center(s) ==
    LET c == center2(boundingRect(s)) IN <<c[1] + 2 * s.pos[1], c[2] + 2 * s.pos[2]>>

\* a get_connection_point that sends a tie |dx| = |dy| to the left or right edge
get_connection_point_tie_sideways(s, target_pos) ==
    LET center == get_center(s)
        rect == sceneBoundingRect(s)
        dx == target_pos[1] - center[1]
        dy == target_pos[2] - center[2]
    IN  IF Abs(dx) >= Abs(dy)
        THEN IF dx > 0 THEN <<2 * rect.r, center[2]>>
                       ELSE <<2 * rect.l, center[2]>>
        ELSE IF dy > 0 THEN <<center[1], 2 * rect.b>>
                       ELSE <<center[1], 2 * rect.t>>

\* BaseShape.get_connection_point; target_pos and the result in half units
get_connection_point(s, target_pos) ==
    LET center == get_center(s)
        rect == sceneBoundingRect(s)
        dx == target_pos[1] - center[1]
        dy == target_pos[2] - center[2]
    IN  IF Abs(dx) > Abs(dy)
        THEN IF dx > 0 THEN <<2 * rect.r, center[2]>>
                       ELSE <<2 * rect.l, center[2]>>
        ELSE IF dy > 0 THEN <<center[1], 2 * rect.b>>
                       ELSE <<center[1], 2 * rect.t>>

\* DiagramText.get_connection_point (its own copy of the algorithm)
text_get_connection_point(s, target_pos) ==
    LET center == get_center(s)
        rect == sceneBoundingRect(s)
        dx == target_pos[1] - center[1]
        dy == target_pos[2] - center[2]
    IN  IF Abs(dx) > Abs(dy)
        THEN IF dx > 0 THEN <<2 * rect.r, center[2]>>
                       ELSE <<2 * rect.l, center[2]>>
        ELSE IF dy > 0 THEN <<center[1], 2 * rect.b>>
                       ELSE <<center[1], 2 * rect.t>>

\* the endpoint capability, dispatched on the object's class
connection_point(s, target_pos) ==
    IF IsText(s) THEN text_get_connection_point(s, target_pos)
    ELSE get_connection_point(s, target_pos)

\* update_handles: each handle at its corner of boundingRect()
handle_positions(s) ==
    LET rect == boundingRect(s) IN
    [h \in Handles |->
        CASE h = TOP_LEFT -> topLeft(rect)
          [] h = TOP_RIGHT -> topRight(rect)
          [] h = BOTTOM_LEFT -> bottomLeft(rect)
          [] OTHER -> bottomRight(rect)]

update_handles(s) == [s EXCEPT !.handles = handle_positions(s)]

\* center_label: the label centred on boundingRect(); position in half units
center_label(s) ==
    IF s.label = NoText THEN s
    ELSE LET c == center2(boundingRect(s))
             e == TextExtent(s.label, "Default", s.label_item_size, FALSE)
         IN  [s EXCEPT !.label_pos = <<c[1] - e[1], c[2] - e[2]>>]

\* init_shape, after the variant's constructor set the outline to (0,0,w,h)
init_shape(kind, x, y, width, height, color) ==
    update_handles(
        [kind |-> kind, pos |-> <<x, y>>,
         rect |-> [l |-> 0, t |-> 0, r |-> width, b |-> height],
         shape_width |-> width, shape_height |-> height,
         color |-> QColor(color),
         label |-> NoText, label_items |-> 0,
         label_item_color |-> "", label_item_size |-> 0,
         label_pos |-> <<0, 0>>,
         label_color |-> get_contrasting_color(QColor(color)),
         label_font_size |-> 14,
         arrows |-> << >>, resizing |-> FALSE, movable |-> TRUE,
         selected |-> FALSE, z |-> 0,
         handles_visible |-> FALSE, handles |-> [h \in Handles |-> <<0, 0>>],
         text |-> "", font_family |-> "", font_size |-> 0,
         is_bold |-> FALSE, is_underline |-> FALSE])

\* the text item's extent follows its content and font (Qt lays it out again)
layout(s) ==
    LET e == TextExtent(s.text, s.font_family, s.font_size, s.is_bold) IN
    [s EXCEPT !.rect = [l |-> 0, t |-> 0, r |-> e[1], b |-> e[2]]]

\* DiagramText.__init__: no handles, no label, z-value 1
DiagramText(x, y, text, font_family, font_size, color, bold, underline) ==
    layout(
        [kind |-> "DiagramText", pos |-> <<x, y>>,
         rect |-> [l |-> 0, t |-> 0, r |-> 0, b |-> 0],
         shape_width |-> 0, shape_height |-> 0,
         color |-> QColor(color),
         label |-> NoText, label_items |-> 0,
         label_item_color |-> "", label_item_size |-> 0,
         label_pos |-> <<0, 0>>,
         label_color |-> "", label_font_size |-> 0,
         arrows |-> << >>, resizing |-> FALSE, movable |-> TRUE,
         selected |-> FALSE, z |-> 1,
         handles_visible |-> FALSE, handles |-> [h \in Handles |-> <<0, 0>>],
         text |-> text, font_family |-> font_family, font_size |-> font_size,
         is_bold |-> bold, is_underline |-> underline])

\* width and height of a shape as the data model means them: shape_width and
\* shape_height of a BaseShape, the laid-out extent of a text label
Width(s) == IF IsText(s) THEN RectWidth(s.rect) ELSE s.shape_width
Height(s) == IF IsText(s) THEN RectHeight(s.rect) ELSE s.shape_height
MinWidth(s) == IF IsText(s) THEN TEXT_MIN_WIDTH ELSE MIN_WIDTH
MinHeight(s) == IF IsText(s) THEN TEXT_MIN_HEIGHT ELSE MIN_HEIGHT

\* BaseShape.set_label_color
set_label_color(s, color) ==
    [s EXCEPT !.label_color = QColor(color),
              !.label_item_color = IF s.label # NoText THEN QColor(color) ELSE @]

\* BaseShape.set_label_font_size
set_label_font_size(s, size) ==
    IF s.label = NoText THEN [s EXCEPT !.label_font_size = size]
    ELSE center_label([s EXCEPT !.label_font_size = size, !.label_item_size = size])

\* an add_label that makes a new label item on every call
add_label_anew(s, text) ==
    IF IsText(s) THEN layout([s EXCEPT !.text = text])
    ELSE center_label(
            [s EXCEPT !.label = text,
                      !.label_items = @ + 1,
                      !.label_item_color = s.label_color,
                      !.label_item_size = s.label_font_size])

\* BaseShape.add_label; DiagramText.add_label only replaces the text.
\* label_items counts the label items the host was given as children
add_label(s, text) ==
    IF IsText(s) THEN layout([s EXCEPT !.text = text])
    ELSE center_label(
            [s EXCEPT !.label = text,
                      !.label_items = IF s.label = NoText THEN @ + 1 ELSE @,
                      !.label_item_color = IF s.label = NoText THEN s.label_color ELSE @,
                      !.label_item_size = s.label_font_size])

\* an add_arrow that registers nothing
add_arrow_dropped(s, a) == s

\* BaseShape.add_arrow / DiagramText.add_arrow
add_arrow(s, a) ==
    IF \E i \in DOMAIN s.arrows : s.arrows[i] = a THEN s
    ELSE [s EXCEPT !.arrows = Append(@, a)]

\* a remove_arrow that empties the list
remove_arrow_all(s, a) == [s EXCEPT !.arrows = << >>]

\* BaseShape.remove_arrow / DiagramText.remove_arrow
remove_arrow(s, a) ==
    [s EXCEPT !.arrows = SelectSeq(@, LAMBDA e : e # a)]

----------------------------------------------------------------------------
(* Arrows.  An arrow is never moved (it is only selectable), so its line   *)
(* is in scene coordinates.  line, end_head and start_head are in half     *)
(* units; the label position, which halves the line's midpoint once more,  *)
(* is in quarter units.                                                    *)

NoPoint == << >>

\* Arrow.center_label: centred on the line's midpoint, just above it
arrow_center_label(a) ==
    IF a.label = NoText THEN a
    ELSE LET e == SimpleTextExtent(a.label, a.label_item_size)
         IN  [a EXCEPT !.label_pos =
                 <<a.line[1][1] + a.line[2][1] - 2 * e[1],
                   a.line[1][2] + a.line[2][2] - 4 * e[2] - 8>>]

\* Arrow.update_position, reading the endpoints in the shape heap sh
update_position(a, sh) ==
    IF a.start_shape = None \/ a.end_shape = None THEN a
    ELSE LET start_center == get_center(sh[a.start_shape])
             end_center == get_center(sh[a.end_shape])
             start_point == connection_point(sh[a.start_shape], end_center)
             end_point == connection_point(sh[a.end_shape], start_center)
         IN  arrow_center_label(
                [a EXCEPT !.line = <<start_point, end_point>>,
                          !.end_head = end_point,
                          !.start_head = IF a.has_start_head THEN start_point ELSE @])

\* an Arrow.__init__ that makes a start head whatever the flag says
new_arrow_two_heads(start_shape, end_shape, bidirectional, color) ==
    [kind |-> "Arrow", start_shape |-> start_shape, end_shape |-> end_shape,
     bidirectional |-> bidirectional, arrow_color |-> QColor(color),
     label |-> NoText, label_items |-> 0,
     label_item_color |-> "", label_item_size |-> 0,
     label_pos |-> <<0, 0>>,
     label_color |-> "#333333", label_font_size |-> 9,
     selected |-> FALSE, z |-> -1,
     line |-> << <<0, 0>>, <<0, 0>> >>,
     end_head |-> NoPoint, start_head |-> NoPoint,
     has_start_head |-> TRUE]

\* Arrow.__init__ up to the registration with its endpoints
new_arrow(start_shape, end_shape, bidirectional, color) ==
    [kind |-> "Arrow", start_shape |-> start_shape, end_shape |-> end_shape,
     bidirectional |-> bidirectional, arrow_color |-> QColor(color),
     label |-> NoText, label_items |-> 0,
     label_item_color |-> "", label_item_size |-> 0,
     label_pos |-> <<0, 0>>,
     label_color |-> "#333333", label_font_size |-> 9,
     selected |-> FALSE, z |-> -1,
     line |-> << <<0, 0>>, <<0, 0>> >>,
     end_head |-> NoPoint, start_head |-> NoPoint,
     has_start_head |-> bidirectional]

\* Arrow.set_label_color
arrow_set_label_color(a, color) ==
    [a EXCEPT !.label_color = QColor(color),
              !.label_item_color = IF a.label # NoText THEN QColor(color) ELSE @]

\* Arrow.set_label_font_size
arrow_set_label_font_size(a, size) ==
    IF a.label = NoText THEN [a EXCEPT !.label_font_size = size]
    ELSE arrow_center_label([a EXCEPT !.label_font_size = size, !.label_item_size = size])

\* Arrow.add_label
arrow_add_label(a, text) ==
    arrow_center_label(
        [a EXCEPT !.label = text,
                  !.label_items = IF a.label = NoText THEN @ + 1 ELSE @,
                  !.label_item_color = IF a.label = NoText THEN a.label_color ELSE @,
                  !.label_item_size = a.label_font_size])

----------------------------------------------------------------------------
(* The object graph: a state of the heap is a pair [sh, ar] of the shape   *)
(* objects and the arrow objects                                          *)

Range(f) == {f[i] : i \in DOMAIN f}

\* update_arrows of shape id: update_position of every listed arrow, in order
RECURSIVE update_each(_, _, _)
update_each(list, sh, ar) ==
    IF list = << >> THEN ar
    ELSE update_each(Tail(list), sh,
                     [ar EXCEPT ![Head(list)] = update_position(@, sh)])

\* an update_arrows that leaves the arrows where they were
update_arrows_stale(sh, ar, id) == ar

update_arrows(sh, ar, id) == update_each(sh[id].arrows, sh, ar)

\* a detach that forgets the end shape
detach_start_only(sh, a, id) ==
    IF a.start_shape # None
    THEN [sh EXCEPT ![a.start_shape] = remove_arrow(@, id)] ELSE sh

\* Arrow.detach
detach(sh, a, id) ==
    LET s1 == IF a.start_shape # None
              THEN [sh EXCEPT ![a.start_shape] = remove_arrow(@, id)] ELSE sh
    IN  IF a.end_shape # None
        THEN [s1 EXCEPT ![a.end_shape] = remove_arrow(@, id)] ELSE s1

\* Arrow.__init__: the new object, registered with both endpoints and laid
\* out.  start_shape.add_arrow(self) and end_shape.add_arrow(self) are not
\* guarded: on None they raise AttributeError, the first before anything is
\* registered (the object is garbage), the second after the start shape has
\* listed the object, which is left without layout
Arrow(sh, ar, id, start_shape, end_shape, bidirectional, color) ==
    IF start_shape = None
    THEN [sh |-> sh, ar |-> ar, raised |-> TRUE]
    ELSE IF end_shape = None
    THEN [sh |-> [sh EXCEPT ![start_shape] = add_arrow(@, id)],
          ar |-> [ar EXCEPT ![id] = new_arrow(start_shape, end_shape, bidirectional, color)],
          raised |-> TRUE]
    ELSE LET s1 == [sh EXCEPT ![start_shape] = add_arrow(@, id)]
             s2 == [s1 EXCEPT ![end_shape] = add_arrow(@, id)]
         IN  [sh |-> s2,
              ar |-> [ar EXCEPT ![id] =
                         update_position(
                             new_arrow(start_shape, end_shape, bidirectional, color), s2)],
              raised |-> FALSE]

ShapeRef(id) == <<"shape", id>>
ArrowRef(id) == <<"arrow", id>>

InScene(items, ref) == \E i \in DOMAIN items : items[i] = ref
SceneShapes == {id \in ShapeIds : InScene(sceneItems, ShapeRef(id))}
SceneArrows == {id \in ArrowIds : InScene(sceneItems, ArrowRef(id))}

\* a removeItem that leaves the item in the scene
removeItem_kept(items, ref) == items

\* QGraphicsScene.removeItem (an item that is not in the scene: no effect)
removeItem(items, ref) == SelectSeq(items, LAMBDA e : e # ref)

\* an object nothing refers to any more is gone: a shape stays while it is in
\* the scene, is the pending arrow source, or is an endpoint of a live arrow
Reachable(sh, ar, items, pending, id) ==
    \/ InScene(items, ShapeRef(id))
    \/ pending = id
    \/ \E a \in ArrowIds : ar[a] # NoArrow /\ (ar[a].start_shape = id \/ ar[a].end_shape = id)

collect(sh, ar, items, pending) ==
    [id \in ShapeIds |-> IF Reachable(sh, ar, items, pending, id) THEN sh[id] ELSE NoShape]

FreeShapeIds == {id \in ShapeIds : shapes[id] = NoShape}
FreeArrowIds == {id \in ArrowIds : arrows[id] = NoArrow}
Min(S) == CHOOSE x \in S : \A y \in S : x <= y

\* a setSelected that can select and never deselects
setSelected_never_off(s, value) ==
    IF ~value THEN s
    ELSE IF s.kind = "Arrow" \/ IsText(s) THEN [s EXCEPT !.selected = TRUE]
    ELSE [s EXCEPT !.selected = TRUE, !.handles_visible = IF s.selected THEN @ ELSE TRUE]

\* BaseShape._on_item_change(ItemSelectedHasChanged): the handles follow the
\* selection; DiagramText has no handles
setSelected(s, value) ==
    IF s.kind = "Arrow" \/ IsText(s) THEN [s EXCEPT !.selected = value]
    ELSE [s EXCEPT !.selected = value,
                   !.handles_visible = IF s.selected # value THEN value ELSE @]

\* a clearSelection that leaves the shapes selected
clearSelectionShapes_kept(sh, items) == sh

\* QGraphicsScene.clearSelection over the items of the scene
clearSelectionShapes(sh, items) ==
    [id \in ShapeIds |-> IF InScene(items, ShapeRef(id)) THEN setSelected(sh[id], FALSE)
                         ELSE sh[id]]
clearSelectionArrows(ar, items) ==
    [id \in ArrowIds |-> IF InScene(items, ArrowRef(id)) THEN setSelected(ar[id], FALSE)
                         ELSE ar[id]]

\* QGraphicsScene.selectedItems, in the scene's order
selectedItems == SelectSeq(sceneItems,
    LAMBDA e : IF e[1] = "shape" THEN shapes[e[2]].selected ELSE arrows[e[2]].selected)

----------------------------------------------------------------------------
(* Resize: handle_resize of the seven variants *)

\* the candidate rectangle: the dragged corner at new_pos, the other three
\* corners from rect (lines 187-196 and their copies)
candidate(rect, handle_pos, new_pos) ==
    CASE handle_pos = TOP_LEFT -> QRectF(new_pos, bottomRight(rect))
      [] handle_pos = TOP_RIGHT -> QRectF(<<rect.l, new_pos[2]>>, <<new_pos[1], rect.b>>)
      [] handle_pos = BOTTOM_LEFT -> QRectF(<<new_pos[1], rect.t>>, <<rect.r, new_pos[2]>>)
      [] OTHER -> QRectF(topLeft(rect), new_pos)

\* the rectangle handle_resize tests: DiagramRect and DiagramOval start from
\* rect() and test the candidate as it is; the polygon variants start from
\* boundingRect() and normalize the candidate before the test
new_rect(s, handle_pos, new_pos) ==
    IF s.kind \in RectKinds THEN candidate(s.rect, handle_pos, new_pos)
    ELSE normalized(candidate(boundingRect(s), handle_pos, new_pos))

\* a minimum-size test that forgets the height
meets_minimum_width_only(rc) == RectWidth(rc) >= MIN_WIDTH

\* the minimum-size test of handle_resize
meets_minimum(rc) == RectWidth(rc) >= MIN_WIDTH /\ RectHeight(rc) >= MIN_HEIGHT

\* a handle_resize without the test of _resizing
handle_resize_while_idle(s, handle_pos, new_pos) ==
    LET rc == new_rect(s, handle_pos, new_pos) IN
    IF meets_minimum(rc)
    THEN center_label([s EXCEPT !.rect = normalized(rc),
                                !.shape_width = RectWidth(rc),
                                !.shape_height = RectHeight(rc)])
    ELSE s

\* handle_resize on the shape itself (update_arrows follows in the handler)
handle_resize(s, handle_pos, new_pos) ==
    LET rc == new_rect(s, handle_pos, new_pos) IN
    IF ~s.resizing THEN s
    ELSE IF meets_minimum(rc)
         THEN center_label([s EXCEPT !.rect = normalized(rc),
                                     !.shape_width = RectWidth(rc),
                                     !.shape_height = RectHeight(rc)])
         ELSE s

\* an update_handles that leaves the handles where the drag left them
set_handles_left(s, positions, h) == s

\* BaseShape.start_resize / end_resize
start_resize(s) == [s EXCEPT !.resizing = TRUE, !.movable = FALSE]
\* update_handles on a shape of the scene: handle.setPos(positions[h]) makes
\* ResizeHandle.itemChange(ItemPositionChange) call handle_resize of the host
\* before the handle takes the position, for each handle from h on
RECURSIVE set_handles(_, _, _)
set_handles(s, positions, h) ==
    IF h \notin Handles THEN s
    ELSE set_handles([handle_resize(s, h, positions[h]) EXCEPT !.handles[h] = positions[h]],
                     positions, h + 1)

end_resize_flags(s) == [s EXCEPT !.resizing = FALSE, !.movable = TRUE]
end_resize(s) == set_handles(end_resize_flags(s), handle_positions(end_resize_flags(s)), TOP_LEFT)

----------------------------------------------------------------------------
(* Events *)

NoGrab == << >>

Event == [op |-> "", button |-> "", target |-> "", id |-> None, handle |-> -1,
          pos |-> <<0, 0>>, arg |-> "", pending |-> None, count |-> 0,
          data |-> [version |-> 0]]

Status(msg) == <<"status_message", msg>>

\* an exception that leaves the handler
Raised(error) == <<"raised", error>>

\* an invisible or removed handle loses the mouse
regrab(sh, items, g) ==
    IF g # NoGrab /\ InScene(items, ShapeRef(g[1])) /\ sh[g[1]].handles_visible
    THEN g ELSE NoGrab

\* a set_mode that changes the tool and leaves the pending source pending
set_mode_keeps_pending(mode) ==
    /\ current_mode' = mode
    /\ emitted' = << Status("Tool: " \o mode) >>
    /\ last' = [Event EXCEPT !.op = "set_mode", !.arg = mode, !.pending = arrow_start_shape]
    /\ UNCHANGED <<shapes, arrows, sceneItems, arrow_start_shape, current_color,
                   current_label_color, text_settings, doc, grabber, steps>>

\* DiagramScene.set_mode
set_mode(mode) ==
    /\ current_mode' = mode
    /\ arrow_start_shape' = None
    /\ shapes' = collect(shapes, arrows, sceneItems, None)
    /\ emitted' = << Status("Tool: " \o mode) >>
    /\ last' = [Event EXCEPT !.op = "set_mode", !.arg = mode, !.pending = arrow_start_shape]
    /\ UNCHANGED <<arrows, sceneItems, current_color, current_label_color,
                   text_settings, doc, grabber, steps>>

\* QRectF.contains
contains(rc, p) == rc.l <= p[1] /\ p[1] <= rc.r /\ rc.t <= p[2] /\ p[2] <= rc.b

\* stacking order of the scene's top-level items: higher z above, and among
\* equal z the item added later above
Above(items, zOf, i, j) ==
    \/ zOf[items[i]] > zOf[items[j]]
    \/ zOf[items[i]] = zOf[items[j]] /\ i > j

ZOf(sh, ar, items) ==
    [e \in Range(items) |-> IF e[1] = "shape" THEN sh[e[2]].z ELSE ar[e[2]].z]

\* QGraphicsScene.items(): the top-level diagram items, topmost first
RECURSIVE sorted_items(_, _, _)
sorted_items(items, zOf, left) ==
    IF left = {} THEN << >>
    ELSE LET top == CHOOSE i \in left : \A j \in left \ {i} : Above(items, zOf, i, j)
         IN  <<items[top]>> \o sorted_items(items, zOf, left \ {top})

scene_items(sh, ar, items) == sorted_items(items, ZOf(sh, ar, items), DOMAIN items)

\* twice the signed area of the triangle a, b, p
Cross(a, b, p) == (b[1] - a[1]) * (p[2] - a[2]) - (b[2] - a[2]) * (p[1] - a[1])

\* QPolygonF.containsPoint for a convex polygon
containsPoint(poly, p) ==
    \/ \A i \in DOMAIN poly : Cross(poly[i], poly[(i % Len(poly)) + 1], p) >= 0
    \/ \A i \in DOMAIN poly : Cross(poly[i], poly[(i % Len(poly)) + 1], p) <= 0

\* the ellipse inscribed in rc holds p (both in half units)
ellipse_contains(rc, p) ==
    (p[1] - (rc.l + rc.r)) * (p[1] - (rc.l + rc.r)) * RectHeight(rc) * RectHeight(rc)
      + (p[2] - (rc.t + rc.b)) * (p[2] - (rc.t + rc.b)) * RectWidth(rc) * RectWidth(rc)
        <= RectWidth(rc) * RectWidth(rc) * RectHeight(rc) * RectHeight(rc)

\* QGraphicsScene.items(pos) keeps the items whose shape() holds pos: the
\* polygon of a polygon variant, the ellipse of an oval, the rectangle of a
\* rectangle or a text (the stroke of the pen around a polygon or an ellipse
\* is left out)
hits(s, pos) ==
    IF s.kind \in PolygonKinds
    THEN containsPoint(polygon(s), <<2 * (pos[1] - s.pos[1]), 2 * (pos[2] - s.pos[2])>>)
    ELSE IF s.kind = "DiagramOval"
    THEN ellipse_contains(s.rect, <<2 * (pos[1] - s.pos[1]), 2 * (pos[2] - s.pos[2])>>)
    ELSE contains(sceneBoundingRect(s), pos)

\* a get_shape_at that never finds a shape
get_shape_at_nothing(pos) == None

\* DiagramScene.get_shape_at: the topmost shape whose area holds pos
get_shape_at(pos) ==
    LET hit == SelectSeq(scene_items(shapes, arrows, sceneItems),
                   LAMBDA e : e[1] = "shape" /\ hits(shapes[e[2]], pos))
    IN  IF hit = << >> THEN None ELSE hit[1][2]

ModeKind(mode) ==
    CASE mode = MODE_RECTANGLE -> "DiagramRect"
      [] mode = MODE_OVAL -> "DiagramOval"
      [] mode = MODE_DIAMOND -> "DiagramDiamond"
      [] mode = MODE_TRIANGLE -> "DiagramTriangle"
      [] mode = MODE_TRIANGLE_INVERTED -> "DiagramTriangleInverted"
      [] mode = MODE_TRIANGLE_LEFT -> "DiagramTriangleLeft"
      [] mode = MODE_TRIANGLE_RIGHT -> "DiagramTriangleRight"
      [] mode = MODE_TEXT -> "DiagramText"
      [] OTHER -> "None"

\* DiagramScene._create_shape
create_shape(x, y) ==
    IF current_mode = MODE_TEXT
    THEN DiagramText(x, y, "Text", text_settings.font_family, text_settings.font_size,
                     current_color, text_settings.bold, text_settings.underline)
    ELSE IF current_mode \in CreateModes
    THEN init_shape(ModeKind(current_mode), x, y, DefaultWidth(ModeKind(current_mode)),
                    DefaultHeight(ModeKind(current_mode)), current_color)
    ELSE NoShape

\* DiagramScene.mouseDoubleClickEvent
mouseDoubleClickEvent(pos) ==
    /\ grabber = NoGrab
    /\ last' = [Event EXCEPT !.op = "double_click", !.pos = pos, !.pending = arrow_start_shape]
    /\ IF current_mode \in {MODE_SELECT, MODE_ARROW, MODE_ARROW_BIDIR}
          \/ get_shape_at(pos) # None
       THEN /\ emitted' = << >>
            /\ UNCHANGED <<shapes, sceneItems>>
       ELSE /\ FreeShapeIds # {}
            /\ LET id == Min(FreeShapeIds) IN
               /\ shapes' = [shapes EXCEPT ![id] = create_shape(pos[1] - 50, pos[2] - 30)]
               /\ sceneItems' = Append(sceneItems, ShapeRef(id))
            /\ emitted' = << Status("Created " \o current_mode) >>
    /\ UNCHANGED <<arrows, current_mode, arrow_start_shape, current_color,
                   current_label_color, text_settings, doc, grabber, steps>>

\* a press in Arrow mode that takes the source itself for a destination
arrow_mode_press_any_target(target, id) ==
    /\ current_mode \in ArrowModes
    /\ IF target = "shape"
       THEN IF arrow_start_shape = None
            THEN /\ arrow_start_shape' = id
                 /\ shapes' = [shapes EXCEPT ![id] = setSelected(@, TRUE)]
                 /\ emitted' = << Status("Click destination shape") >>
                 /\ UNCHANGED <<arrows, sceneItems>>
            ELSE IF TRUE
            THEN /\ FreeArrowIds # {}
                 /\ LET a == Min(FreeArrowIds)
                        g == Arrow(shapes, arrows, a, arrow_start_shape, id,
                                   current_mode = MODE_ARROW_BIDIR, current_color)
                        items == Append(sceneItems, ArrowRef(a))
                    IN  /\ arrows' = g.ar
                        /\ sceneItems' = items
                        /\ shapes' = collect(
                              [g.sh EXCEPT ![arrow_start_shape] = setSelected(@, FALSE)],
                              g.ar, items, None)
                 /\ arrow_start_shape' = None
                 /\ emitted' = << Status("Arrow created") >>
            ELSE /\ shapes' = collect(
                        [shapes EXCEPT ![arrow_start_shape] = setSelected(@, FALSE)],
                        arrows, sceneItems, None)
                 /\ arrow_start_shape' = None
                 /\ emitted' = << Status("Cancelled") >>
                 /\ UNCHANGED <<arrows, sceneItems>>
       ELSE /\ shapes' = collect(
                   IF arrow_start_shape # None
                   THEN [shapes EXCEPT ![arrow_start_shape] = setSelected(@, FALSE)]
                   ELSE shapes, arrows, sceneItems, None)
            /\ arrow_start_shape' = None
            /\ emitted' = << Status("Click a shape to start arrow") >>
            /\ UNCHANGED <<arrows, sceneItems>>
    /\ UNCHANGED <<current_label_color, text_settings>>

\* an arrow-mode press that leaves the pending source pending after a click
\* on empty space
arrow_mode_press_keeps_pending(target, id) ==
    /\ current_mode \in ArrowModes
    /\ IF target = "shape"
       THEN IF arrow_start_shape = None
            THEN /\ arrow_start_shape' = id
                 /\ shapes' = [shapes EXCEPT ![id] = setSelected(@, TRUE)]
                 /\ emitted' = << Status("Click destination shape") >>
                 /\ UNCHANGED <<arrows, sceneItems>>
            ELSE IF id # arrow_start_shape
            THEN /\ FreeArrowIds # {}
                 /\ LET a == Min(FreeArrowIds)
                        g == Arrow(shapes, arrows, a, arrow_start_shape, id,
                                   current_mode = MODE_ARROW_BIDIR, current_color)
                        items == Append(sceneItems, ArrowRef(a))
                    IN  /\ arrows' = g.ar
                        /\ sceneItems' = items
                        /\ shapes' = collect(
                              [g.sh EXCEPT ![arrow_start_shape] = setSelected(@, FALSE)],
                              g.ar, items, None)
                 /\ arrow_start_shape' = None
                 /\ emitted' = << Status("Arrow created") >>
            ELSE /\ shapes' = collect(
                        [shapes EXCEPT ![arrow_start_shape] = setSelected(@, FALSE)],
                        arrows, sceneItems, None)
                 /\ arrow_start_shape' = None
                 /\ emitted' = << Status("Cancelled") >>
                 /\ UNCHANGED <<arrows, sceneItems>>
       ELSE /\ emitted' = << Status("Click a shape to start arrow") >>
            /\ UNCHANGED <<shapes, arrows, sceneItems, arrow_start_shape>>
    /\ UNCHANGED <<current_label_color, text_settings>>

\* DiagramScene.mousePressEvent, left button, Arrow or Two-Way mode
\* (lines 207-229); target is what get_shape_at found
arrow_mode_press(target, id) ==
    /\ current_mode \in ArrowModes
    /\ IF target = "shape"
       THEN IF arrow_start_shape = None
            THEN /\ arrow_start_shape' = id
                 /\ shapes' = [shapes EXCEPT ![id] = setSelected(@, TRUE)]
                 /\ emitted' = << Status("Click destination shape") >>
                 /\ UNCHANGED <<arrows, sceneItems>>
            ELSE IF id # arrow_start_shape
            THEN /\ FreeArrowIds # {}
                 /\ LET a == Min(FreeArrowIds)
                        g == Arrow(shapes, arrows, a, arrow_start_shape, id,
                                   current_mode = MODE_ARROW_BIDIR, current_color)
                        items == Append(sceneItems, ArrowRef(a))
                    IN  /\ arrows' = g.ar
                        /\ sceneItems' = items
                        /\ shapes' = collect(
                              [g.sh EXCEPT ![arrow_start_shape] = setSelected(@, FALSE)],
                              g.ar, items, None)
                 /\ arrow_start_shape' = None
                 /\ emitted' = << Status("Arrow created") >>
            ELSE /\ shapes' = collect(
                        [shapes EXCEPT ![arrow_start_shape] = setSelected(@, FALSE)],
                        arrows, sceneItems, None)
                 /\ arrow_start_shape' = None
                 /\ emitted' = << Status("Cancelled") >>
                 /\ UNCHANGED <<arrows, sceneItems>>
       ELSE /\ shapes' = collect(
                   IF arrow_start_shape # None
                   THEN [shapes EXCEPT ![arrow_start_shape] = setSelected(@, FALSE)]
                   ELSE shapes, arrows, sceneItems, None)
            /\ arrow_start_shape' = None
            /\ emitted' = << Status("Click a shape to start arrow") >>
            /\ UNCHANGED <<arrows, sceneItems>>
    /\ UNCHANGED <<current_label_color, text_settings>>

\* a press outside the arrow modes that reports every shape as a text
select_mode_press_text_always(target, id) ==
    /\ current_mode \notin ArrowModes
    /\ IF target = "shape"
       THEN /\ IF ~shapes[id].selected
               THEN /\ shapes' = [clearSelectionShapes(shapes, sceneItems)
                                      EXCEPT ![id] = setSelected(@, TRUE)]
                    /\ arrows' = clearSelectionArrows(arrows, sceneItems)
               ELSE UNCHANGED <<shapes, arrows>>
            /\ emitted' = << <<"shape_selected", id>> >> \o
                          << <<"text_selected", id>> >>
       ELSE IF target = "arrow"
       THEN /\ shapes' = clearSelectionShapes(shapes, sceneItems)
            /\ arrows' = [clearSelectionArrows(arrows, sceneItems)
                              EXCEPT ![id] = setSelected(@, TRUE)]
            /\ emitted' = << >>
       ELSE /\ shapes' = clearSelectionShapes(shapes, sceneItems)
            /\ arrows' = clearSelectionArrows(arrows, sceneItems)
            /\ emitted' = << >>
    /\ UNCHANGED <<sceneItems, arrow_start_shape, current_label_color, text_settings>>

\* DiagramScene.mousePressEvent, left button, any other mode (lines 231-248)
select_mode_press(target, id) ==
    /\ current_mode \notin ArrowModes
    /\ IF target = "shape"
       THEN /\ IF ~shapes[id].selected
               THEN /\ shapes' = [clearSelectionShapes(shapes, sceneItems)
                                      EXCEPT ![id] = setSelected(@, TRUE)]
                    /\ arrows' = clearSelectionArrows(arrows, sceneItems)
               ELSE UNCHANGED <<shapes, arrows>>
            /\ emitted' = << <<"shape_selected", id>> >> \o
                          (IF IsText(shapes[id]) THEN << <<"text_selected", id>> >> ELSE << >>)
       ELSE IF target = "arrow"
       THEN /\ shapes' = clearSelectionShapes(shapes, sceneItems)
            /\ arrows' = [clearSelectionArrows(arrows, sceneItems)
                              EXCEPT ![id] = setSelected(@, TRUE)]
            /\ emitted' = << >>
       ELSE /\ shapes' = clearSelectionShapes(shapes, sceneItems)
            /\ arrows' = clearSelectionArrows(arrows, sceneItems)
            /\ emitted' = << >>
    /\ UNCHANGED <<sceneItems, arrow_start_shape, current_label_color, text_settings>>

\* the targets a press can land on: a shape or an arrow of the scene, or none
IsTarget(target, id) ==
    \/ target = "shape" /\ id \in SceneShapes
    \/ target = "arrow" /\ id \in SceneArrows
    \/ target = "empty" /\ id = None

\* what every left press that is not on a visible handle shares: the hit test
\* of lines 188-197 found target, and the button tests follow
left_press(target, id) ==
    /\ grabber = NoGrab
    /\ IsTarget(target, id)
    /\ last' = [Event EXCEPT !.op = "press", !.button = "left", !.target = target,
                             !.id = id, !.arg = current_mode,
                             !.pending = arrow_start_shape]
    /\ UNCHANGED <<current_mode, current_color, doc, grabber, steps>>

\* DiagramScene.mousePressEvent, left button
press_arrow_mode(target, id) == left_press(target, id) /\ arrow_mode_press(target, id)
press_select_mode(target, id) == left_press(target, id) /\ select_mode_press(target, id)

\* DiagramScene._add_label_to_shape after the dialog returned (ok, text)
add_label_to_shape(id, ok, text) ==
    IF ok /\ text # ""
    THEN LET s0 == shapes[id]
             s1 == IF IsText(s0) THEN s0
                   ELSE [set_label_color(s0, current_label_color)
                            EXCEPT !.label_font_size = text_settings.font_size]
             sh == [shapes EXCEPT ![id] = add_label(s1, text)]
         IN  /\ shapes' = [clearSelectionShapes(sh, sceneItems)
                              EXCEPT ![id] = setSelected(@, TRUE)]
             /\ arrows' = clearSelectionArrows(arrows, sceneItems)
             /\ emitted' = << Status("Label added"), <<"shape_selected", id>> >>
    ELSE /\ emitted' = << >>
         /\ UNCHANGED <<shapes, arrows>>

\* DiagramScene._add_label_to_arrow after the dialog returned (ok, text).
\* The label of an arrow is a QGraphicsSimpleTextItem, which has no
\* toPlainText: on a labelled arrow line 275 raises before the dialog opens
add_label_to_arrow(id, ok, text) ==
    IF arrows[id].label # NoText
    THEN /\ emitted' = << Raised("AttributeError") >>
         /\ UNCHANGED <<shapes, arrows>>
    ELSE IF ok /\ text # ""
    THEN /\ arrows' = [arrows EXCEPT ![id] =
                arrow_add_label(
                    [arrow_set_label_color(@, current_label_color)
                        EXCEPT !.label_font_size = text_settings.font_size], text)]
         /\ emitted' = << Status("Arrow label added") >>
         /\ UNCHANGED shapes
    ELSE /\ emitted' = << >>
         /\ UNCHANGED <<shapes, arrows>>

\* DiagramScene.mousePressEvent, right button on a shape or an arrow
\* (lines 199-205), with the answer of the input dialog
right_press(target, id, ok, text) ==
    /\ grabber = NoGrab
    /\ IsTarget(target, id)
    /\ target # "empty"
    /\ last' = [Event EXCEPT !.op = "press", !.button = "right", !.target = target,
                             !.id = id, !.arg = IF ok THEN text ELSE NoText,
                             !.pending = arrow_start_shape]
    /\ IF target = "shape" THEN add_label_to_shape(id, ok, text)
       ELSE add_label_to_arrow(id, ok, text)
    /\ UNCHANGED <<sceneItems, current_mode, arrow_start_shape, current_color,
                   current_label_color, text_settings, doc, grabber, steps>>

\* a loop over item.arrows that removes the arrows from the scene and leaves
\* them in the lists of their endpoints
RECURSIVE detach_all_listed(_, _, _, _)
detach_all_listed(list, sh, ar, items) ==
    IF list = << >> THEN [sh |-> sh, items |-> items]
    ELSE detach_all_listed(Tail(list), sh, ar, removeItem(items, ArrowRef(Head(list))))

\* for arrow in item.arrows[:]: arrow.detach(); self.removeItem(arrow)
RECURSIVE detach_all(_, _, _, _)
detach_all(list, sh, ar, items) ==
    IF list = << >> THEN [sh |-> sh, items |-> items]
    ELSE detach_all(Tail(list), detach(sh, ar[Head(list)], Head(list)), ar,
                    removeItem(items, ArrowRef(Head(list))))

\* a loop of _delete_selected that removes, with a shape, every arrow of
\* the scene and not only the arrows of the shape
RECURSIVE delete_each_wide(_, _, _, _)
delete_each_wide(sel, sh, ar, items) ==
    IF sel = << >> THEN [sh |-> sh, items |-> items]
    ELSE LET e == Head(sel)
             all == SelectSeq(items, LAMBDA r : r[1] = "arrow")
             g == IF e[1] = "shape"
                  THEN detach_all([i \in DOMAIN all |-> all[i][2]], sh, ar, items)
                  ELSE [sh |-> detach(sh, ar[e[2]], e[2]), items |-> items]
         IN  delete_each_wide(Tail(sel), g.sh, ar, removeItem(g.items, e))

\* the loop of _delete_selected over the selected items
RECURSIVE delete_each(_, _, _, _)
delete_each(sel, sh, ar, items) ==
    IF sel = << >> THEN [sh |-> sh, items |-> items]
    ELSE LET e == Head(sel)
             g == IF e[1] = "shape" THEN detach_all(sh[e[2]].arrows, sh, ar, items)
                  ELSE [sh |-> detach(sh, ar[e[2]], e[2]), items |-> items]
         IN  delete_each(Tail(sel), g.sh, ar, removeItem(g.items, e))

\* the arrow objects that are still items of the scene
live_arrows(ar, items) ==
    [a \in ArrowIds |-> IF InScene(items, ArrowRef(a)) THEN ar[a] ELSE NoArrow]

\* DiagramScene._delete_selected
delete_selected ==
    IF selectedItems = << >>
    THEN /\ emitted' = << Status("Nothing selected") >>
         /\ UNCHANGED <<shapes, arrows, sceneItems, grabber>>
    ELSE LET g == delete_each(selectedItems, shapes, arrows, sceneItems)
             ar == live_arrows(arrows, g.items)
             sh == collect(g.sh, ar, g.items, arrow_start_shape)
         IN  /\ shapes' = sh
             /\ arrows' = ar
             /\ sceneItems' = g.items
             /\ grabber' = regrab(sh, g.items, grabber)
             /\ emitted' = << Status("Deleted") >>

\* a _change_z_order that moves every item of the scene, selected or not
change_z_order_all(delta) ==
    IF selectedItems = << >>
    THEN /\ emitted' = << Status("Nothing selected") >>
         /\ UNCHANGED <<shapes, arrows>>
    ELSE /\ shapes' = [id \in ShapeIds |->
                IF id \in SceneShapes
                THEN [shapes[id] EXCEPT !.z = @ + delta] ELSE shapes[id]]
         /\ arrows' = [id \in ArrowIds |->
                IF id \in SceneArrows
                THEN [arrows[id] EXCEPT !.z = @ + delta] ELSE arrows[id]]
         /\ emitted' = << Status("Moved") >>

\* DiagramScene._change_z_order
change_z_order(delta) ==
    IF selectedItems = << >>
    THEN /\ emitted' = << Status("Nothing selected") >>
         /\ UNCHANGED <<shapes, arrows>>
    ELSE /\ shapes' = [id \in ShapeIds |->
                IF id \in SceneShapes /\ shapes[id].selected
                THEN [shapes[id] EXCEPT !.z = @ + delta] ELSE shapes[id]]
         /\ arrows' = [id \in ArrowIds |->
                IF id \in SceneArrows /\ arrows[id].selected
                THEN [arrows[id] EXCEPT !.z = @ + delta] ELSE arrows[id]]
         /\ emitted' = << Status("Moved") >>

\* the arrows of the scene listed by a selected shape
incident_to_selected ==
    {a \in SceneArrows : \E id \in SceneShapes :
        shapes[id].selected /\ a \in Range(shapes[id].arrows)}

\* DiagramScene.keyPressEvent
key_delete ==
    /\ last' = [Event EXCEPT !.op = "key", !.arg = "Delete", !.pending = arrow_start_shape,
                             !.count = Cardinality(incident_to_selected)]
    /\ delete_selected
    /\ UNCHANGED <<current_mode, arrow_start_shape, current_color, current_label_color,
                   text_settings, doc, steps>>

key_escape ==
    /\ last' = [Event EXCEPT !.op = "key", !.arg = "Escape", !.pending = arrow_start_shape]
    /\ arrow_start_shape' = None
    /\ LET sh == collect(clearSelectionShapes(shapes, sceneItems), arrows, sceneItems, None)
       IN  /\ shapes' = sh
           /\ grabber' = regrab(sh, sceneItems, grabber)
    /\ arrows' = clearSelectionArrows(arrows, sceneItems)
    /\ emitted' = << Status("Selection cleared") >>
    /\ UNCHANGED <<sceneItems, current_mode, current_color, current_label_color,
                   text_settings, doc, steps>>

ZInRange(delta) ==
    /\ \A id \in SceneShapes : shapes[id].selected => Abs(shapes[id].z + delta) <= MaxZ
    /\ \A id \in SceneArrows : arrows[id].selected => Abs(arrows[id].z + delta) <= MaxZ

key_z(delta) ==
    /\ ZInRange(delta)
    /\ last' = [Event EXCEPT !.op = "key", !.arg = IF delta > 0 THEN "Plus" ELSE "Minus",
                             !.pending = arrow_start_shape]
    /\ change_z_order(delta)
    /\ UNCHANGED <<sceneItems, current_mode, arrow_start_shape, current_color,
                   current_label_color, text_settings, doc, grabber, steps>>

\* DiagramScene.clear_all: QGraphicsScene.clear() destroys every item
clear_all ==
    /\ last' = [Event EXCEPT !.op = "clear_all", !.pending = arrow_start_shape]
    /\ shapes' = [id \in ShapeIds |-> NoShape]
    /\ arrows' = [id \in ArrowIds |-> NoArrow]
    /\ sceneItems' = << >>
    /\ arrow_start_shape' = None
    /\ grabber' = NoGrab
    /\ emitted' = << Status("Canvas cleared") >>
    /\ UNCHANGED <<current_mode, current_color, current_label_color, text_settings,
                   doc, steps>>

\* ResizeHandle.mousePressEvent: a press on a visible handle (lines 190-194 of
\* the scene hand it to the handle), which then holds the mouse
handle_press(id, h) ==
    /\ grabber = NoGrab
    /\ id \in SceneShapes
    /\ IsBaseShape(shapes[id])
    /\ shapes[id].handles_visible
    /\ shapes' = [shapes EXCEPT ![id] = start_resize(@)]
    /\ grabber' = <<id, h>>
    /\ last' = [Event EXCEPT !.op = "handle_press", !.id = id, !.handle = h,
                             !.pending = arrow_start_shape]
    /\ emitted' = << >>
    /\ UNCHANGED <<arrows, sceneItems, current_mode, arrow_start_shape, current_color,
                   current_label_color, text_settings, doc, steps>>

\* the whole of a variant's handle_resize on the heap: the shape, then
\* update_arrows when the candidate was applied
resize(sh, ar, id, h, p) ==
    LET sh1 == [sh EXCEPT ![id] = handle_resize(@, h, p)] IN
    [sh |-> sh1,
     ar |-> IF sh[id].resizing /\ meets_minimum(new_rect(sh[id], h, p))
            THEN update_arrows(sh1, ar, id) ELSE ar]

\* ResizeHandle.itemChange(ItemPositionChange) while the handle is dragged:
\* handle_resize of the host, then the handle takes the position
handle_drag(id, h, p) ==
    /\ grabber = <<id, h>>
    /\ steps < MaxSteps
    /\ steps' = steps + 1
    /\ LET g == resize(shapes, arrows, id, h, p) IN
         /\ shapes' = [g.sh EXCEPT ![id].handles[h] = p]
         /\ arrows' = g.ar
    /\ last' = [Event EXCEPT !.op = "handle_drag", !.id = id, !.handle = h, !.pos = p,
                             !.pending = arrow_start_shape]
    /\ emitted' = << >>
    /\ UNCHANGED <<sceneItems, current_mode, arrow_start_shape, current_color,
                   current_label_color, text_settings, doc, grabber>>

\* ResizeHandle.mouseReleaseEvent
handle_release(id, h) ==
    /\ grabber = <<id, h>>
    /\ shapes' = [shapes EXCEPT ![id] = end_resize(@)]
    /\ grabber' = NoGrab
    /\ last' = [Event EXCEPT !.op = "handle_release", !.id = id, !.handle = h,
                             !.pos = shapes[id].handles[h],
                             !.pending = arrow_start_shape]
    /\ emitted' = << >>
    /\ UNCHANGED <<arrows, sceneItems, current_mode, arrow_start_shape, current_color,
                   current_label_color, text_settings, doc, steps>>

\* a drag of the selection: Qt moves each selected movable item in turn, and
\* each one's itemChange(ItemPositionHasChanged) runs update_arrows
RECURSIVE move_each(_, _, _, _)
move_each(sel, sh, ar, d) ==
    IF sel = << >> THEN [sh |-> sh, ar |-> ar]
    ELSE LET e == Head(sel) IN
         IF e[1] = "shape" /\ sh[e[2]].movable
         THEN LET sh1 == [sh EXCEPT ![e[2]].pos = <<@[1] + d[1], @[2] + d[2]>>]
              IN  move_each(Tail(sel), sh1, update_arrows(sh1, ar, e[2]), d)
         ELSE move_each(Tail(sel), sh, ar, d)

mouse_move(d) ==
    /\ grabber = NoGrab
    /\ current_mode \notin ArrowModes
    /\ \E id \in SceneShapes : shapes[id].selected /\ shapes[id].movable
    /\ steps < MaxSteps
    /\ steps' = steps + 1
    /\ LET g == move_each(selectedItems, shapes, arrows, d) IN
         /\ shapes' = g.sh
         /\ arrows' = g.ar
    /\ last' = [Event EXCEPT !.op = "move", !.pos = d, !.pending = arrow_start_shape]
    /\ emitted' = << >>
    /\ UNCHANGED <<sceneItems, current_mode, arrow_start_shape, current_color,
                   current_label_color, text_settings, doc, grabber>>

\* the status messages of set_color, one for each selected item in turn
RECURSIVE color_messages(_, _)
color_messages(sel, sh) ==
    IF sel = << >> THEN << >>
    ELSE << Status(IF Head(sel)[1] = "shape" /\ IsText(sh[Head(sel)[2]])
                   THEN "Text color changed" ELSE "Shape color changed") >>
         \o color_messages(Tail(sel), sh)

\* DiagramScene.set_color: a text, a shape and an arrow each have set_color
set_color(color) ==
    /\ current_color' = QColor(color)
    /\ IF selectedItems = << >>
       THEN /\ emitted' = << Status("Select an item first to change its color") >>
            /\ UNCHANGED <<shapes, arrows>>
       ELSE /\ shapes' = [id \in ShapeIds |->
                  IF id \in SceneShapes /\ shapes[id].selected
                  THEN [shapes[id] EXCEPT !.color = QColor(color)] ELSE shapes[id]]
            /\ arrows' = [id \in ArrowIds |->
                  IF id \in SceneArrows /\ arrows[id].selected
                  THEN [arrows[id] EXCEPT !.arrow_color = QColor(color)] ELSE arrows[id]]
            /\ emitted' = color_messages(selectedItems, shapes)
    /\ last' = [Event EXCEPT !.op = "set_color", !.arg = color,
                             !.pending = arrow_start_shape]
    /\ UNCHANGED <<sceneItems, current_mode, arrow_start_shape, current_label_color,
                   text_settings, doc, grabber, steps>>

\* a label-colour rule that also recolours the selected items without a label
has_label_or_not(item) == item.kind # "DiagramText"

\* the test of DiagramScene.set_label_color: the item has a label (the label
\* attribute of a DiagramText is always None)
has_label(item) == item.label # NoText /\ item.kind # "DiagramText"

\* DiagramScene.set_label_color
scene_set_label_color(color) ==
    /\ current_label_color' = QColor(color)
    /\ shapes' = [id \in ShapeIds |->
          IF id \in SceneShapes /\ shapes[id].selected /\ has_label(shapes[id])
          THEN set_label_color(shapes[id], color) ELSE shapes[id]]
    /\ arrows' = [id \in ArrowIds |->
          IF id \in SceneArrows /\ arrows[id].selected /\ has_label(arrows[id])
          THEN arrow_set_label_color(arrows[id], color) ELSE arrows[id]]
    /\ emitted' = IF \/ \E id \in SceneShapes : shapes[id].selected /\ has_label(shapes[id])
                     \/ \E id \in SceneArrows : arrows[id].selected /\ has_label(arrows[id])
                  THEN << Status("Label color changed") >> ELSE << >>
    /\ last' = [Event EXCEPT !.op = "set_label_color", !.arg = color,
                             !.pending = arrow_start_shape]
    /\ UNCHANGED <<sceneItems, current_mode, arrow_start_shape, current_color,
                   text_settings, doc, grabber, steps>>

\* DiagramText.update_font after one of set_font_family, set_font_size,
\* set_bold, set_underline
text_set(s, key, value) ==
    layout(CASE key = "font_family" -> [s EXCEPT !.font_family = value]
             [] key = "font_size" -> [s EXCEPT !.font_size = value]
             [] key = "bold" -> [s EXCEPT !.is_bold = value]
             [] OTHER -> [s EXCEPT !.is_underline = value])

\* DiagramScene.set_text_settings with one keyword argument, as the toolbar
\* calls it
set_text_settings(key, value) ==
    /\ text_settings' = [text_settings EXCEPT ![key] = value]
    /\ shapes' = [id \in ShapeIds |->
          IF id \in SceneShapes /\ shapes[id].selected
          THEN IF IsText(shapes[id]) THEN text_set(shapes[id], key, value)
               ELSE IF shapes[id].label # NoText /\ key = "font_size"
               THEN set_label_font_size(shapes[id], value)
               ELSE shapes[id]
          ELSE shapes[id]]
    /\ arrows' = [id \in ArrowIds |->
          IF id \in SceneArrows /\ arrows[id].selected /\ key = "font_size"
          THEN arrow_set_label_font_size(arrows[id], value)
          ELSE arrows[id]]
    /\ last' = [Event EXCEPT !.op = "set_text_settings", !.arg = key,
                             !.pending = arrow_start_shape]
    /\ emitted' = << >>
    /\ UNCHANGED <<sceneItems, current_mode, arrow_start_shape, current_color,
                   current_label_color, doc, grabber, steps>>

----------------------------------------------------------------------------
(* The JSON codec: ExportManager._serialize_scene / _deserialize_scene.    *)
(* A document is [version, shapes, arrows]; an entry is a record, and a    *)
(* field a document leaves out is a field the record does not have.       *)

NoDoc == [version |-> 0]
SerializeError == [version |-> -1, error |-> "AttributeError"]

\* the classes export.py imports and tests with isinstance (line 42)
ExportedKinds == {"DiagramRect", "DiagramOval", "DiagramDiamond", "DiagramTriangle"}

\* the entry of lines 43-55; item.label is a QGraphicsTextItem, which has no
\* text() method, so a shape with a label raises (see serialize)
shape_data(s, shape_id) ==
    [id |-> shape_id, type |-> s.kind, x |-> s.pos[1], y |-> s.pos[2],
     width |-> s.shape_width, height |-> s.shape_height, color |-> s.color,
     label |-> NoText, label_color |-> s.label_color,
     label_font_size |-> s.label_font_size, z |-> s.z]

\* the entry of lines 61-73
text_data(s, shape_id) ==
    [id |-> shape_id, type |-> "DiagramText", x |-> s.pos[1], y |-> s.pos[2],
     text |-> s.text, color |-> s.color, font_family |-> s.font_family,
     font_size |-> s.font_size, bold |-> s.is_bold, underline |-> s.is_underline,
     z |-> s.z]

\* the entry of lines 82-90 (an arrow's label is a QGraphicsSimpleTextItem)
arrow_data(a, shape_ids) ==
    [start_id |-> shape_ids[a.start_shape], end_id |-> shape_ids[a.end_shape],
     bidirectional |-> a.bidirectional, color |-> a.arrow_color,
     label |-> a.label, label_color |-> a.label_color,
     label_font_size |-> a.label_font_size]

\* the function f with key k set to v
Put(f, k, v) == [x \in DOMAIN f \cup {k} |-> IF x = k THEN v ELSE f[x]]

\* the first loop: entries and shape_ids (object -> id) after the items seq
RECURSIVE serialize_shapes(_, _, _, _)
serialize_shapes(seq, sh, data, shape_ids) ==
    IF seq = << >> THEN [data |-> data, shape_ids |-> shape_ids]
    ELSE LET e == Head(seq)
             n == Len(data)
         IN  IF e[1] = "shape" /\ sh[e[2]].kind \in ExportedKinds
             THEN serialize_shapes(Tail(seq), sh, Append(data, shape_data(sh[e[2]], n)),
                                   Put(shape_ids, e[2], n))
             ELSE IF e[1] = "shape" /\ IsText(sh[e[2]])
             THEN serialize_shapes(Tail(seq), sh, Append(data, text_data(sh[e[2]], n)),
                                   Put(shape_ids, e[2], n))
             ELSE serialize_shapes(Tail(seq), sh, data, shape_ids)

\* the second loop
RECURSIVE serialize_arrows(_, _, _, _)
serialize_arrows(seq, ar, shape_ids, data) ==
    IF seq = << >> THEN data
    ELSE LET e == Head(seq) IN
         IF e[1] = "arrow" /\ ar[e[2]].start_shape \in DOMAIN shape_ids
                           /\ ar[e[2]].end_shape \in DOMAIN shape_ids
         THEN serialize_arrows(Tail(seq), ar, shape_ids,
                               Append(data, arrow_data(ar[e[2]], shape_ids)))
         ELSE serialize_arrows(Tail(seq), ar, shape_ids, data)

\* the first loop raises at item.label.text() of a labelled shape
raises_on_label(sh, items) ==
    \E i \in DOMAIN items :
        /\ items[i][1] = "shape"
        /\ sh[items[i][2]].kind \in ExportedKinds
        /\ sh[items[i][2]].label # NoText

\* ExportManager._serialize_scene
serialize(sh, ar, items) ==
    IF raises_on_label(sh, items) THEN SerializeError
    ELSE LET seq == scene_items(sh, ar, items)
             g == serialize_shapes(seq, sh, << >>, << >>)
         IN  [version |-> 1, shapes |-> g.data,
              arrows |-> serialize_arrows(seq, ar, g.shape_ids, << >>)]

\* dict.get: a missing key reads as the default
Get(e, k, d) == IF k \in DOMAIN e THEN e[k] ELSE d

\* the key Python's None makes in shape_map
NoneKey == -1

\* lines 110-147: the object a shape entry constructs (NoShape: unknown type)
shape_from(e) ==
    LET shape_type == Get(e, "type", "None")
        x == Get(e, "x", 0)
        y == Get(e, "y", 0)
    IN  CASE shape_type = "DiagramRect" ->
                init_shape(shape_type, x, y, Get(e, "width", 100), Get(e, "height", 60),
                           Get(e, "color", "#3498db"))
          [] shape_type = "DiagramOval" ->
                init_shape(shape_type, x, y, Get(e, "width", 100), Get(e, "height", 60),
                           Get(e, "color", "#2ecc71"))
          [] shape_type = "DiagramDiamond" ->
                init_shape(shape_type, x, y, Get(e, "width", 100), Get(e, "height", 60),
                           Get(e, "color", "#e74c3c"))
          [] shape_type = "DiagramTriangle" ->
                init_shape(shape_type, x, y, Get(e, "width", 100), Get(e, "height", 80),
                           Get(e, "color", "#9b59b6"))
          [] shape_type = "DiagramText" ->
                DiagramText(x, y, Get(e, "text", "Text"), Get(e, "font_family", "Arial"),
                            Get(e, "font_size", 14), Get(e, "color", "#333333"),
                            Get(e, "bold", FALSE), Get(e, "underline", FALSE))
          [] OTHER -> NoShape

\* lines 154-155: the z-order, if the entry has one
restore_z(s, e) == IF "z" \in DOMAIN e THEN [s EXCEPT !.z = e.z] ELSE s

\* lines 158-163: label colour and font size of a non-text shape
restore_label_style(s, e) ==
    IF IsText(s) THEN s
    ELSE [set_label_color(s, Get(e, "label_color", "#ffffff"))
             EXCEPT !.label_font_size = Get(e, "label_font_size", 14)]

\* lines 166-167: the label of a non-text shape
restore_label(s, e) ==
    IF ~IsText(s) /\ Get(e, "label", NoText) \notin {NoText, ""}
    THEN add_label(s, e.label) ELSE s

\* lines 153-167: what follows the construction of a shape
shape_restored(e) ==
    restore_label(restore_label_style(restore_z(shape_from(e), e), e), e)

\* a first loop that gives up at the first entry of unknown type
RECURSIVE deserialize_shapes_stops(_, _, _)
deserialize_shapes_stops(entries, objs, shape_map) ==
    IF entries = << >> THEN [objs |-> objs, shape_map |-> shape_map]
    ELSE LET e == Head(entries) IN
         IF shape_from(e) = NoShape
         THEN [objs |-> objs, shape_map |-> shape_map]
         ELSE deserialize_shapes_stops(Tail(entries), Append(objs, shape_restored(e)),
                                       Put(shape_map, Get(e, "id", NoneKey), Len(objs) + 1))

\* the first loop of _deserialize_scene: the objects, in document order, and
\* shape_map (id -> object)
RECURSIVE deserialize_shapes(_, _, _)
deserialize_shapes(entries, objs, shape_map) ==
    IF entries = << >> THEN [objs |-> objs, shape_map |-> shape_map]
    ELSE LET e == Head(entries) IN
         IF shape_from(e) = NoShape
         THEN deserialize_shapes(Tail(entries), objs, shape_map)
         ELSE deserialize_shapes(Tail(entries), Append(objs, shape_restored(e)),
                                 Put(shape_map, Get(e, "id", NoneKey), Len(objs) + 1))

\* lines 184-187: label colour and font size of an arrow
restore_arrow_style(a, e) ==
    [(IF "label_color" \in DOMAIN e THEN arrow_set_label_color(a, e.label_color) ELSE a)
        EXCEPT !.label_font_size = Get(e, "label_font_size", @)]

\* lines 184-190: label colour and size, then the label
arrow_restored(a, e) ==
    IF Get(e, "label", NoText) \notin {NoText, ""}
    THEN arrow_add_label(restore_arrow_style(a, e), e.label)
    ELSE restore_arrow_style(a, e)

\* lines 174-190: the arrow of entry e, the n-th made, added to the heap g
arrow_made(g, e, n) == [sh |-> g.sh, ar |-> [g.ar EXCEPT ![n] = arrow_restored(@, e)], n |-> n]

connects(e, shape_map) ==
    /\ Get(e, "start_id", NoneKey) \in DOMAIN shape_map
    /\ Get(e, "end_id", NoneKey) \in DOMAIN shape_map

\* the second loop: the heap [sh, ar, n] with n the number of arrows made
RECURSIVE deserialize_arrows(_, _, _)
deserialize_arrows(entries, shape_map, h) ==
    IF entries = << >> THEN h
    ELSE IF connects(Head(entries), shape_map)
    THEN deserialize_arrows(Tail(entries), shape_map,
            arrow_made(Arrow(h.sh, h.ar, h.n + 1,
                             shape_map[Get(Head(entries), "start_id", NoneKey)],
                             shape_map[Get(Head(entries), "end_id", NoneKey)],
                             Get(Head(entries), "bidirectional", FALSE),
                             Get(Head(entries), "color", "#333333")),
                       Head(entries), h.n + 1))
    ELSE deserialize_arrows(Tail(entries), shape_map, h)

\* the first loop's result for document d
shapes_of(d) == deserialize_shapes(Get(d, "shapes", << >>), << >>, << >>)

\* the number of objects a document makes
ShapeCount(d) == Len(shapes_of(d).objs)
arrows_connected(entries, shape_map) ==
    SelectSeq(entries, LAMBDA e : connects(e, shape_map))
ArrowCount(d) == Len(arrows_connected(Get(d, "arrows", << >>), shapes_of(d).shape_map))

\* the shape heap holding the objects objs
heap_of(objs) == [id \in ShapeIds |-> IF id <= Len(objs) THEN objs[id] ELSE NoShape]

\* the items of the scene after nshapes shapes and narrows arrows were added
items_of(nshapes, narrows) ==
    [i \in 1..(nshapes + narrows) |->
        IF i <= nshapes THEN ShapeRef(i) ELSE ArrowRef(i - nshapes)]

scene_of(g, h) == [sh |-> h.sh, ar |-> h.ar, items |-> items_of(Len(g.objs), h.n)]

arrows_of(d, g) ==
    scene_of(g, deserialize_arrows(Get(d, "arrows", << >>), g.shape_map,
                [sh |-> heap_of(g.objs), ar |-> [id \in ArrowIds |-> NoArrow], n |-> 0]))

\* ExportManager._deserialize_scene: the scene it leaves, [sh, ar, items]
deserialize(d) == arrows_of(d, shapes_of(d))

\* an install that finds nothing to put and leaves the scene as it was
install_unless_empty(g) ==
    IF g.items = << >> THEN UNCHANGED <<shapes, arrows, sceneItems>>
    ELSE /\ shapes' = g.sh
         /\ arrows' = g.ar
         /\ sceneItems' = g.items

\* clear_all, then the scene holds the objects of g: the scene becomes g
install(g) ==
    /\ shapes' = g.sh
    /\ arrows' = g.ar
    /\ sceneItems' = g.items

\* ExportManager.export_json: the document written (none when serialize raises)
export_json ==
    /\ grabber = NoGrab
    /\ sceneItems # << >>
    /\ steps < MaxSteps
    /\ steps' = steps + 1
    /\ doc' = serialize(shapes, arrows, sceneItems)
    /\ last' = [Event EXCEPT !.op = "export_json", !.pending = arrow_start_shape]
    /\ emitted' = << >>
    /\ UNCHANGED <<shapes, arrows, sceneItems, current_mode, arrow_start_shape,
                   current_color, current_label_color, text_settings, grabber>>

\* ExportManager.load_json of a file holding document d
load_json(d) ==
    /\ grabber = NoGrab
    /\ Get(d, "version", 0) # -1
    /\ ShapeCount(d) <= MaxShapes
    /\ ArrowCount(d) <= MaxArrows
    /\ steps < MaxSteps
    /\ steps' = steps + 1
    /\ install(deserialize(d))
    /\ arrow_start_shape' = None
    /\ last' = [Event EXCEPT !.op = "load_json", !.pending = arrow_start_shape,
                             !.data = d]
    /\ emitted' = << Status("Canvas cleared") >>
    /\ UNCHANGED <<current_mode, current_color, current_label_color, text_settings,
                   doc, grabber>>

----------------------------------------------------------------------------
(* The program after construction (DiagramScene.__init__, empty scene) *)

Init ==
    /\ shapes = [id \in ShapeIds |-> NoShape]
    /\ arrows = [id \in ArrowIds |-> NoArrow]
    /\ sceneItems = << >>
    /\ current_mode = MODE_RECTANGLE
    /\ arrow_start_shape = None
    /\ current_color = "#3498db"
    /\ current_label_color = "#333333"
    /\ text_settings = [font_family |-> "Arial", font_size |-> 14,
                        bold |-> FALSE, underline |-> FALSE]
    /\ doc = NoDoc
    /\ emitted = << >>
    /\ grabber = NoGrab
    /\ last = Event
    /\ steps = 0

\* double-click positions: one free spot of the canvas per shape
ClickPoints == {<<50, 30>>, <<250, 30>>}

Targets == ({"shape"} \X ShapeIds) \cup ({"arrow"} \X ArrowIds) \cup {<<"empty", None>>}

----------------------------------------------------------------------------
(* SpecArrow: the arrow-creation state machine, selection and deletion *)

NextArrow ==
    \/ \E m \in {MODE_SELECT, MODE_RECTANGLE, MODE_ARROW, MODE_ARROW_BIDIR} : set_mode(m)
    \/ \E p \in ClickPoints : mouseDoubleClickEvent(p)
    \/ \E t \in Targets : press_arrow_mode(t[1], t[2])
    \/ \E t \in Targets : press_select_mode(t[1], t[2])
    \/ key_delete
    \/ key_escape

SpecArrow == Init /\ [][NextArrow]_vars

----------------------------------------------------------------------------
(* Scenes the editor reaches by two double-clicks, an optional right-click *)
(* label on the first shape, two presses in Arrow (or Two-Way) mode and a  *)
(* press in Select mode, built with the constructors those handlers call   *)

placed(kind, pos) ==
    IF kind = "DiagramText"
    THEN DiagramText(pos[1] - 50, pos[2] - 30, "Text", "Arial", 14, "#3498db", FALSE, FALSE)
    ELSE init_shape(kind, pos[1] - 50, pos[2] - 30, DefaultWidth(kind),
                    DefaultHeight(kind), "#3498db")

labelled(s, text) ==
    IF text = NoText \/ IsText(s) THEN s
    ELSE add_label([set_label_color(s, "#333333") EXCEPT !.label_font_size = 14], text)

\* shape 1 of kind k1 (labelled text, if any), shape 2 of kind k2, arrow 1
\* from shape 1 to shape 2, and shape 1 selected
TwoShapes(k1, text, k2, bidirectional) ==
    LET sh0 == [id \in ShapeIds |->
                   IF id = 1 THEN labelled(placed(k1, <<50, 30>>), text)
                   ELSE IF id = 2 THEN placed(k2, <<250, 30>>)
                   ELSE NoShape]
        g == Arrow(sh0, [id \in ArrowIds |-> NoArrow], 1, 1, 2, bidirectional, "#3498db")
    IN  [sh |-> [g.sh EXCEPT ![1] = setSelected(@, TRUE)], ar |-> g.ar,
         items |-> <<ShapeRef(1), ShapeRef(2), ArrowRef(1)>>]

InitScene(g) ==
    /\ shapes = g.sh
    /\ arrows = g.ar
    /\ sceneItems = g.items
    /\ current_mode = MODE_SELECT
    /\ arrow_start_shape = None
    /\ current_color = "#3498db"
    /\ current_label_color = "#333333"
    /\ text_settings = [font_family |-> "Arial", font_size |-> 14,
                        bold |-> FALSE, underline |-> FALSE]
    /\ doc = NoDoc
    /\ emitted = << <<"shape_selected", 1>> >>
    /\ grabber = NoGrab
    /\ last = [Event EXCEPT !.op = "press", !.button = "left", !.target = "shape",
                            !.id = 1, !.arg = MODE_SELECT]
    /\ steps = 0

----------------------------------------------------------------------------
(* SpecResize: a shape of any variant with a label and an arrow, and the   *)
(* resize gesture on its handles                                           *)

\* handle positions (local coordinates of the host): inside the default
\* outline, beyond its bottom-right corner, beyond its top-left corner
DragPoints == {<<30, 20>>, <<130, 90>>, <<-60, -50>>}

InitResize ==
    \E k1 \in BaseShapeKinds, text \in {NoText, "A"}, k2 \in {"DiagramRect", "DiagramText"} :
        InitScene(TwoShapes(k1, text, k2, FALSE))

NextResize ==
    \/ \E t \in Targets : press_select_mode(t[1], t[2])
    \/ \E id \in ShapeIds, h \in Handles : handle_press(id, h)
    \/ \E id \in ShapeIds, h \in Handles, p \in DragPoints : handle_drag(id, h, p)
    \/ \E id \in ShapeIds, h \in Handles : handle_release(id, h)

SpecResize == InitResize /\ [][NextResize]_vars

----------------------------------------------------------------------------
(* SpecMove: two connected shapes, the second possibly a text, dragged,    *)
(* resized and restyled                                                    *)

MoveDeltas == {<<10, 0>>, <<-30, 40>>}

InitMove ==
    \E k1 \in {"DiagramRect", "DiagramDiamond", "DiagramTriangleLeft"},
       k2 \in {"DiagramOval", "DiagramText"}, bidirectional \in BOOLEAN :
        InitScene(TwoShapes(k1, NoText, k2, bidirectional))

NextMove ==
    \/ \E t \in Targets : press_select_mode(t[1], t[2])
    \/ \E d \in MoveDeltas : mouse_move(d)
    \/ \E id \in ShapeIds : handle_press(id, BOTTOM_RIGHT)
    \/ \E id \in ShapeIds : handle_drag(id, BOTTOM_RIGHT, <<130, 90>>)
    \/ \E id \in ShapeIds : handle_release(id, BOTTOM_RIGHT)
    \/ set_text_settings("font_size", 20)
    \/ \E id \in ShapeIds : right_press("shape", id, TRUE, "Longer text")

SpecMove == InitMove /\ [][NextMove]_vars

----------------------------------------------------------------------------
(* SpecCodec: scenes of every variant, edited, saved and loaded            *)

\* files on disk: a rectangle below the minimum size, and a document whose
\* entries leave out the optional fields
TestDocs ==
    { [version |-> 1,
       shapes |-> << [id |-> 0, type |-> "DiagramRect", x |-> 0, y |-> 0,
                      width |-> 10, height |-> 10] >>,
       arrows |-> << >>],
      [version |-> 1,
       shapes |-> << [type |-> "DiagramOval"], [type |-> "Hexagon", id |-> 1],
                     [type |-> "DiagramText", id |-> 2, x |-> 200] >>,
       arrows |-> << [start_id |-> 2, end_id |-> 0], [end_id |-> 2] >>],
      [version |-> 1,
       shapes |-> << [id |-> 0, type |-> "DiagramRect", x |-> 0, y |-> 0],
                     [id |-> 1, type |-> "Hexagon", x |-> 100, y |-> 100],
                     [id |-> 2, type |-> "DiagramDiamond", x |-> 200, y |-> 0,
                      label |-> "B", z |-> 1] >>,
       arrows |-> << [start_id |-> 0, end_id |-> 1], [start_id |-> 5, end_id |-> 0],
                     [start_id |-> 2, end_id |-> 0, bidirectional |-> TRUE] >>] }

InitCodec ==
    \E k1 \in {"DiagramRect", "DiagramDiamond", "DiagramTriangleInverted"},
       text \in {NoText, "A"}, k2 \in {"DiagramRect", "DiagramText"} :
        InitScene(TwoShapes(k1, text, k2, k1 = "DiagramDiamond"))

NextCodec ==
    \/ \E t \in Targets : press_select_mode(t[1], t[2])
    \/ \E id \in ArrowIds : right_press("arrow", id, TRUE, "L")
    \/ \E id \in ShapeIds : handle_press(id, TOP_LEFT)
    \/ \E id \in ShapeIds : handle_drag(id, TOP_LEFT, <<-60, -50>>)
    \/ \E id \in ShapeIds : handle_release(id, TOP_LEFT)
    \/ key_z(1)
    \/ export_json
    \/ \E d \in TestDocs \cup {doc} : load_json(d)

SpecCodec == InitCodec /\ [][NextCodec]_vars

----------------------------------------------------------------------------
(* SpecLoad: documents loaded into, and written from, a scene whose        *)
(* selection and z-order change                                            *)

NextLoad ==
    \/ \E t \in Targets : press_select_mode(t[1], t[2])
    \/ key_z(1)
    \/ export_json
    \/ \E d \in TestDocs \cup {doc} : load_json(d)

SpecLoad == InitCodec /\ [][NextLoad]_vars

----------------------------------------------------------------------------
(* SpecConnect: one shape of any variant, asked for its connection point   *)
(* towards targets around its centre                                       *)

\* a scene holding one selected shape of kind k, constructed at (x, y) with
\* the given size (a text takes its size from its font)
OneShape(k, x, y, width, height) ==
    [sh |-> [id \in ShapeIds |->
                IF id = 1
                THEN setSelected(IF k = "DiagramText"
                                 THEN DiagramText(x, y, "Text", "Arial", 14, "#333333",
                                                  FALSE, FALSE)
                                 ELSE init_shape(k, x, y, width, height, "#3498db"), TRUE)
                ELSE NoShape],
     ar |-> [id \in ArrowIds |-> NoArrow],
     items |-> <<ShapeRef(1)>>]

\* target positions relative to the centre, in half units: the centre itself,
\* ties of |dx| and |dy|, and both orders of them in every direction
TargetOffsets == {-200, -3, 0, 3, 200} \X {-200, -3, 0, 3, 200}

\* shape.get_connection_point(target_pos), as Arrow.update_position calls it,
\* with target_pos at offset d from the shape's centre
query_connection_point(id, d) ==
    /\ id \in SceneShapes
    /\ last' = [Event EXCEPT !.op = "get_connection_point", !.id = id,
                             !.pos = <<get_center(shapes[id])[1] + d[1],
                                       get_center(shapes[id])[2] + d[2]>>,
                             !.pending = arrow_start_shape]
    /\ emitted' = << connection_point(shapes[id],
                        <<get_center(shapes[id])[1] + d[1], get_center(shapes[id])[2] + d[2]>>) >>
    /\ UNCHANGED <<shapes, arrows, sceneItems, current_mode, arrow_start_shape,
                   current_color, current_label_color, text_settings, doc, grabber, steps>>

InitConnect ==
    \E k \in ShapeKinds, g \in {<<0, 0, 100, 60>>, <<51, 71, 98, 58>>, <<-20, 10, 40, 30>>} :
        InitScene(OneShape(k, g[1], g[2], g[3], g[4]))

NextConnect ==
    \/ \E id \in ShapeIds, d \in TargetOffsets : query_connection_point(id, d)
    \/ \E d \in MoveDeltas : mouse_move(d)

SpecConnect == InitConnect /\ [][NextConnect]_vars

----------------------------------------------------------------------------
(* SpecSelect: two shapes and an arrow, clicks in Select and Arrow mode,   *)
(* Escape and the z-order keys                                             *)

InitSelect ==
    \E k2 \in {"DiagramOval", "DiagramText"} :
        InitScene(TwoShapes("DiagramRect", NoText, k2, FALSE))

NextSelect ==
    \/ \E mode \in {MODE_SELECT, MODE_ARROW} : set_mode(mode)
    \/ \E t \in Targets : press_select_mode(t[1], t[2])
    \/ \E t \in Targets : press_arrow_mode(t[1], t[2])
    \/ key_escape
    \/ key_z(1)
    \/ key_z(-1)

SpecSelect == InitSelect /\ [][NextSelect]_vars

----------------------------------------------------------------------------
(* SpecDetach: Arrow(...) and Arrow.detach() called on two shapes that     *)
(* already share an arrow, with up to MaxParallel arrow objects            *)

ParallelIds == 1..MaxParallel

\* arrow = Arrow(start_shape, end_shape, bidirectional), called by itself
create_arrow(start_shape, end_shape, bidirectional) ==
    /\ \E id \in ParallelIds : arrows[id] = NoArrow
    /\ start_shape \in SceneShapes \cup {None}
    /\ end_shape \in SceneShapes \cup {None}
    /\ shapes' = Arrow(shapes, arrows, Min({id \in ParallelIds : arrows[id] = NoArrow}),
                       start_shape, end_shape, bidirectional, "#333333").sh
    /\ arrows' = Arrow(shapes, arrows, Min({id \in ParallelIds : arrows[id] = NoArrow}),
                       start_shape, end_shape, bidirectional, "#333333").ar
    /\ emitted' = IF start_shape = None \/ end_shape = None
                  THEN << Raised("AttributeError") >> ELSE << >>
    /\ last' = [Event EXCEPT !.op = "Arrow",
                             !.id = Min({id \in ParallelIds : arrows[id] = NoArrow}),
                             !.pos = <<start_shape, end_shape>>,
                             !.pending = arrow_start_shape]
    /\ UNCHANGED <<sceneItems, current_mode, arrow_start_shape, current_color,
                   current_label_color, text_settings, doc, grabber, steps>>

\* arrow.detach(), called by itself on a live arrow object
detach_arrow(id) ==
    /\ arrows[id] # NoArrow
    /\ shapes' = detach(shapes, arrows[id], id)
    /\ emitted' = << >>
    /\ last' = [Event EXCEPT !.op = "detach", !.id = id, !.pending = arrow_start_shape,
                             !.count = Cardinality({t \in ShapeIds :
                                           IsShape(shapes[t]) /\ id \in Range(shapes[t].arrows)})]
    /\ UNCHANGED <<arrows, sceneItems, current_mode, arrow_start_shape, current_color,
                   current_label_color, text_settings, doc, grabber, steps>>

\* the scene g with room for MaxParallel arrow objects
with_parallel(g) ==
    [sh |-> g.sh,
     ar |-> [id \in ParallelIds |-> IF id \in DOMAIN g.ar THEN g.ar[id] ELSE NoArrow],
     items |-> g.items]

InitDetach ==
    \E k1 \in {"DiagramRect", "DiagramTriangle"}, k2 \in {"DiagramOval", "DiagramText"} :
        InitScene(with_parallel(TwoShapes(k1, NoText, k2, FALSE)))

NextDetach ==
    \/ \E start_shape, end_shape \in ShapeIds \cup {None}, bidirectional \in BOOLEAN :
          create_arrow(start_shape, end_shape, bidirectional)
    \/ \E id \in ParallelIds : detach_arrow(id)

SpecDetach == InitDetach /\ [][NextDetach]_vars

----------------------------------------------------------------------------
(* SpecFormat: colour, label colour and text settings applied to the       *)
(* selection of a scene of two shapes and an arrow, with and without labels *)

\* the scene g in Arrow mode after a click on shape 2, which is pending and
\* selected next to what was selected before
pending_second(g) ==
    /\ shapes = [g.sh EXCEPT ![2] = setSelected(@, TRUE)]
    /\ arrows = g.ar
    /\ sceneItems = g.items
    /\ current_mode = MODE_ARROW
    /\ arrow_start_shape = 2
    /\ current_color = "#3498db"
    /\ current_label_color = "#333333"
    /\ text_settings = [font_family |-> "Arial", font_size |-> 14,
                        bold |-> FALSE, underline |-> FALSE]
    /\ doc = NoDoc
    /\ emitted = << Status("Click destination shape") >>
    /\ grabber = NoGrab
    /\ last = [Event EXCEPT !.op = "press", !.button = "left", !.target = "shape",
                            !.id = 2, !.arg = MODE_ARROW]
    /\ steps = 0

InitFormat ==
    \E text \in {NoText, "A"}, k2 \in {"DiagramOval", "DiagramText"} :
        \/ InitScene(TwoShapes("DiagramRect", text, k2, FALSE))
        \/ pending_second(TwoShapes("DiagramRect", text, k2, FALSE))

NextFormat ==
    \/ set_mode(MODE_SELECT)
    \/ \E t \in Targets : press_select_mode(t[1], t[2])
    \/ \E id \in ArrowIds : right_press("arrow", id, TRUE, "L")
    \/ set_color("#e74c3c")
    \/ scene_set_label_color("red")
    \/ set_text_settings("font_size", 20)
    \/ set_text_settings("bold", TRUE)
    \/ set_text_settings("font_family", "Courier")

SpecFormat == InitFormat /\ [][NextFormat]_vars

----------------------------------------------------------------------------
(* SpecCreate: double-clicks in every mode, on free canvas and on shapes   *)

\* double-click positions: a free spot, and a spot that lies on any shape
\* the first one made, whatever its variant, except a text
CreatePoints == {<<50, 30>>, <<40, 50>>}

CreateTools == CreateModes \cup {MODE_TEXT, MODE_SELECT, MODE_ARROW_BIDIR}

NextCreate ==
    \/ \E mode \in CreateTools : set_mode(mode)
    \/ set_color("#e74c3c")
    \/ \E p \in CreatePoints : mouseDoubleClickEvent(p)

SpecCreate == Init /\ [][NextCreate]_vars

----------------------------------------------------------------------------
(* Properties *)

\* C1: every shape of the scene is at least as wide and as high as its
\* variant's minimum (40x30, and 20x20 for a text), in every reachable state
C1_MinimumSize ==
    \A id \in SceneShapes :
        /\ Width(shapes[id]) >= MinWidth(shapes[id])
        /\ Height(shapes[id]) >= MinHeight(shapes[id])

\* the candidate rectangle of the drag that last' records is below the minimum
TooSmall(s, h, p) ==
    \/ RectWidth(new_rect(s, h, p)) < MIN_WIDTH
    \/ RectHeight(new_rect(s, h, p)) < MIN_HEIGHT

\* C2: a handle_resize made while resizing whose candidate rectangle is below
\* the minimum width or height leaves the shape's width, height, rectangle or
\* polygon, label position and the arrows' geometry unchanged
C2_RejectedResizeChangesNothing ==
    [][ (/\ last'.op = "handle_drag"
         /\ shapes[last'.id].resizing
         /\ TooSmall(shapes[last'.id], last'.handle, last'.pos))
        => (/\ shapes'[last'.id].shape_width = shapes[last'.id].shape_width
            /\ shapes'[last'.id].shape_height = shapes[last'.id].shape_height
            /\ shapes'[last'.id].rect = shapes[last'.id].rect
            /\ polygon(shapes'[last'.id]) = polygon(shapes[last'.id])
            /\ shapes'[last'.id].label_pos = shapes[last'.id].label_pos
            /\ arrows' = arrows) ]_vars

\* a polygon variant with a label and an arrow, after a rejected drag
C2_Witness ==
    /\ last.op = "handle_drag"
    /\ shapes[last.id].kind \in PolygonKinds
    /\ shapes[last.id].resizing
    /\ shapes[last.id].label # NoText
    /\ shapes[last.id].arrows # << >>
    /\ TooSmall(shapes[last.id], last.handle, last.pos)

\* the end of arrow a on the side of shape id
EndOn(a, id) == IF a.start_shape = id THEN a.line[1] ELSE a.line[2]
OtherEnd(a, id) == IF a.start_shape = id THEN a.end_shape ELSE a.start_shape

\* C3: after a move of the selection, every arrow of a moved shape ends, on
\* that shape's side, at the shape's connection point towards the centre of
\* the arrow's other endpoint, both taken from the geometry after the move
C3_MovedShapeArrowsFollow ==
    last.op = "move" =>
        \A id \in SceneShapes :
            (shapes[id].selected /\ shapes[id].movable) =>
                \A i \in DOMAIN shapes[id].arrows :
                    LET a == arrows[shapes[id].arrows[i]] IN
                    EndOn(a, id) =
                        connection_point(shapes[id], get_center(shapes[OtherEnd(a, id)]))

\* shape 1 was dragged away from where it was created, its arrow with it
C3_Witness ==
    /\ last.op = "move"
    /\ 1 \in SceneShapes
    /\ shapes[1].selected
    /\ shapes[1].pos # <<0, 0>>
    /\ shapes[1].arrows # << >>
    /\ ~shapes[2].selected

\* C4: between events every arrow's stored line is the pair of connection
\* points of its endpoints, computed from their current geometry
C4_ArrowLinesFresh ==
    \A a \in SceneArrows : arrows[a].line = update_position(arrows[a], shapes).line

ArrowPress(e) == e.op = "press" /\ e.button = "left" /\ e.target = "shape"
                 /\ e.arg \in ArrowModes

\* C6: in Arrow or Two-Way mode a left click on shape A with no pending source
\* makes A the pending source and selects it; a following left click on
\* another shape B creates exactly one arrow from A to B, bidirectional iff the
\* mode is Two-Way, in the scene and in both shapes' lists, deselects A and
\* leaves no pending source
C6_ArrowCreation ==
    [][ ArrowPress(last') =>
        /\ arrow_start_shape = None =>
              /\ arrow_start_shape' = last'.id
              /\ shapes'[last'.id].selected
        /\ (arrow_start_shape # None /\ arrow_start_shape # last'.id) =>
              /\ arrow_start_shape' = None
              /\ ~shapes'[arrow_start_shape].selected
              /\ \E a \in ArrowIds :
                    /\ {x \in ArrowIds : InScene(sceneItems', ArrowRef(x))}
                          = SceneArrows \cup {a}
                    /\ a \notin SceneArrows
                    /\ arrows'[a].start_shape = arrow_start_shape
                    /\ arrows'[a].end_shape = last'.id
                    /\ arrows'[a].bidirectional = (current_mode = MODE_ARROW_BIDIR)
                    /\ a \in Range(shapes'[arrow_start_shape].arrows)
                    /\ a \in Range(shapes'[last'.id].arrows) ]_vars

\* a two-way arrow was just drawn between two shapes
C6_Witness ==
    /\ ArrowPress(last)
    /\ last.arg = MODE_ARROW_BIDIR
    /\ last.pending # None
    /\ last.pending # last.id
    /\ \E a \in SceneArrows : arrows[a].bidirectional /\ arrows[a].end_shape = last.id

\* C7: with A pending, a left click on A cancels: no pending source, A not
\* selected, no arrow created, the scene's arrows and every shape's list of
\* arrows as before
C7_ClickOnSourceCancels ==
    [][ (ArrowPress(last') /\ arrow_start_shape # None /\ arrow_start_shape = last'.id) =>
        /\ arrow_start_shape' = None
        /\ IsShape(shapes'[last'.id]) => ~shapes'[last'.id].selected
        /\ arrows' = arrows
        /\ sceneItems' = sceneItems
        /\ \A id \in SceneShapes : shapes'[id].arrows = shapes[id].arrows ]_vars

\* the pending source was clicked again, in a scene that holds an arrow
C7_Witness ==
    /\ ArrowPress(last)
    /\ last.pending # None
    /\ last.pending = last.id
    /\ last.id \in SceneShapes
    /\ SceneArrows # {}
    /\ emitted = << Status("Cancelled") >>

\* C8: Escape or set_mode with a pending source leaves no pending source and
\* the shape that was pending not selected
C8_EscapeOrModeSwitchClearsPending ==
    [][ (/\ arrow_start_shape # None
         /\ \/ last'.op = "set_mode"
            \/ last'.op = "key" /\ last'.arg = "Escape")
        => (/\ arrow_start_shape' = None
            /\ InScene(sceneItems, ShapeRef(arrow_start_shape)) =>
                  ~shapes'[arrow_start_shape].selected) ]_vars

\* the shapes and the arrows of a scene in the order serialize visits them
shapes_in_order(sh, ar, items) ==
    SelectSeq(scene_items(sh, ar, items), LAMBDA e : e[1] = "shape")
arrows_in_order(sh, ar, items) ==
    SelectSeq(scene_items(sh, ar, items), LAMBDA e : e[1] = "arrow")

IndexOf(seq, ref) == CHOOSE i \in DOMAIN seq : seq[i] = ref

\* deserialize(serialize(scene)) has as many shapes and arrows as the scene,
\* and its i-th shape and arrow match the scene's i-th (in the order of
\* serialize) under same_shape and same_arrow, with corresponding endpoints
reproduces(sh, ar, items, same_shape(_, _), same_arrow(_, _)) ==
    LET d == serialize(sh, ar, items) IN
    /\ d # SerializeError
    /\ LET g == deserialize(d)
           ss == shapes_in_order(sh, ar, items)
           aa == arrows_in_order(sh, ar, items)
       IN  /\ Len(SelectSeq(g.items, LAMBDA e : e[1] = "shape")) = Len(ss)
           /\ Len(SelectSeq(g.items, LAMBDA e : e[1] = "arrow")) = Len(aa)
           /\ \A i \in DOMAIN ss : same_shape(sh[ss[i][2]], g.sh[i])
           /\ \A j \in DOMAIN aa :
                 /\ same_arrow(ar[aa[j][2]], g.ar[j])
                 /\ g.ar[j].start_shape = IndexOf(ss, ShapeRef(ar[aa[j][2]].start_shape))
                 /\ g.ar[j].end_shape = IndexOf(ss, ShapeRef(ar[aa[j][2]].end_shape))

\* variant, position, width, height, colour, label text, label colour, label
\* font size and z-order
same_item(s, t) ==
    /\ s.kind = t.kind
    /\ s.pos = t.pos
    /\ Width(s) = Width(t)
    /\ Height(s) = Height(t)
    /\ s.color = t.color
    /\ s.label = t.label
    /\ s.text = t.text
    /\ s.label_color = t.label_color
    /\ s.label_font_size = t.label_font_size
    /\ s.z = t.z

same_arrow_item(a, b) ==
    /\ a.bidirectional = b.bidirectional
    /\ a.arrow_color = b.arrow_color
    /\ a.label = b.label
    /\ a.label_color = b.label_color
    /\ a.label_font_size = b.label_font_size
    /\ a.z = b.z

\* every non-text shape and every arrow of the scene carries a label
AllLabelled ==
    /\ SceneShapes # {}
    /\ \A id \in SceneShapes : IsBaseShape(shapes[id]) => shapes[id].label # NoText
    /\ \A a \in SceneArrows : arrows[a].label # NoText

\* C9: saving a scene whose non-text shapes and arrows are all labelled
\* completes without error, and loading what was saved gives the same number
\* of shapes and arrows and, per item, the same variant, position, width,
\* height, colour, label text, label colour, label font size and z-order
C9_RoundTripOfLabelledScene ==
    (last.op = "export_json" /\ AllLabelled) =>
        /\ doc # SerializeError
        /\ reproduces(shapes, arrows, sceneItems, same_item, same_arrow_item)

\* variant, scene-space bounding rectangle, colours, labels, font sizes, z-order
same_rendering(s, t) ==
    /\ s.kind = t.kind
    /\ sceneBoundingRect(s) = sceneBoundingRect(t)
    /\ s.color = t.color
    /\ s.label = t.label
    /\ s.text = t.text
    /\ s.label_color = t.label_color
    /\ s.label_font_size = t.label_font_size
    /\ s.font_family = t.font_family
    /\ s.font_size = t.font_size
    /\ s.z = t.z

\* the scene holds only shapes of the variants serialize writes, none of them
\* labelled (so that serialize completes)
Plain ==
    \A id \in SceneShapes :
        IsText(shapes[id]) \/ (shapes[id].kind \in ExportedKinds /\ shapes[id].label = NoText)

\* C10: for every scene the editor reaches, resized shapes and nudged z-orders
\* included, deserialize(serialize(scene)) reproduces every shape and every
\* arrow: the same variant, scene-space bounding rectangle, colours, labels,
\* font sizes and z-order (stated for the scenes serialize can write)
C10_RoundTripOfEditedScene ==
    (sceneItems # << >> /\ Plain) =>
        reproduces(shapes, arrows, sceneItems, same_rendering, same_arrow_item)

\* the point the connection-point rule names, for centre C and target T (half
\* units) and scene bounding rectangle R
EdgeMidpoint(C, R, T) ==
    IF Abs(T[1] - C[1]) > Abs(T[2] - C[2])
    THEN IF T[1] - C[1] > 0 THEN <<2 * R.r, C[2]>> ELSE <<2 * R.l, C[2]>>
    ELSE IF T[2] - C[2] > 0 THEN <<C[1], 2 * R.b>> ELSE <<C[1], 2 * R.t>>

\* C11: get_connection_point(T) returns the midpoint of the right or left edge
\* of the scene bounding rectangle when |dx| > |dy| (right iff dx > 0), else
\* of the bottom or top edge (bottom iff dy > 0); the text implementation
\* returns the same point as the shape implementation; and centre (100,100),
\* rectangle (50,70)-(150,130), target (200,100) give (150,100)
C11_ConnectionPoint ==
    last.op = "get_connection_point" =>
        LET s == shapes[last.id]
            expected == EdgeMidpoint(get_center(s), sceneBoundingRect(s), last.pos)
        IN  /\ emitted = << expected >>
            /\ get_connection_point(s, last.pos) = expected
            /\ text_get_connection_point(s, last.pos) = expected
            /\ (/\ get_center(s) = <<200, 200>>
                /\ sceneBoundingRect(s) = [l |-> 50, t |-> 70, r |-> 150, b |-> 130]
                /\ last.pos = <<400, 200>>) => emitted = << <<300, 200>> >>

\* the example of the rule was asked of a shape
C11_Witness ==
    /\ last.op = "get_connection_point"
    /\ get_center(shapes[last.id]) = <<200, 200>>
    /\ sceneBoundingRect(shapes[last.id]) = [l |-> 50, t |-> 70, r |-> 150, b |-> 130]
    /\ last.pos = <<400, 200>>
    /\ emitted = << <<300, 200>> >>

\* C12: '+' raises and '-' lowers the z-order of every selected item by
\* exactly 1, whatever the z-order of the others, and leaves every item that
\* is not selected where it was; with nothing selected no z-order changes
C12_ZNudge ==
    [][ (last'.op = "key" /\ last'.arg \in {"Plus", "Minus"}) =>
        LET delta == IF last'.arg = "Plus" THEN 1 ELSE -1
        IN  /\ sceneItems' = sceneItems
            /\ \A id \in SceneShapes :
                  shapes'[id].z = shapes[id].z + (IF shapes[id].selected THEN delta ELSE 0)
            /\ \A id \in SceneArrows :
                  arrows'[id].z = arrows[id].z + (IF arrows[id].selected THEN delta ELSE 0) ]_vars

\* '+' was pressed with both shapes selected at different z-orders and the
\* arrow not selected
C12_Witness ==
    /\ last.op = "key" /\ last.arg = "Plus"
    /\ shapes[1].selected /\ shapes[2].selected
    /\ shapes[1].z = 0 /\ shapes[2].z = 1
    /\ ~arrows[1].selected /\ arrows[1].z = -1

\* '-' was pressed with nothing selected
C12_WitnessEmpty ==
    /\ last.op = "key" /\ last.arg = "Minus"
    /\ selectedItems = << >>
    /\ emitted = << Status("Nothing selected") >>

\* C13: outside Arrow and Two-Way mode a left click on a shape or an arrow
\* that is not selected leaves exactly that item selected, and a left click
\* on empty space leaves nothing selected, whatever was selected before
C13_ClickSelectsOne ==
    [][ (last'.op = "press" /\ last'.button = "left" /\ last'.arg \notin ArrowModes) =>
        /\ (last'.target = "shape" /\ ~shapes[last'.id].selected) =>
               selectedItems' = << ShapeRef(last'.id) >>
        /\ (last'.target = "arrow" /\ ~arrows[last'.id].selected) =>
               selectedItems' = << ArrowRef(last'.id) >>
        /\ last'.target = "empty" => selectedItems' = << >> ]_vars

\* shape 2 was clicked in Select mode and is the one selected item, while
\* shape 1 is still there
C13_Witness ==
    /\ last.op = "press" /\ last.button = "left" /\ last.arg = MODE_SELECT
    /\ last.target = "shape" /\ last.id = 2
    /\ 1 \in SceneShapes
    /\ selectedItems = << ShapeRef(2) >>

\* C17: the resize handles of a shape are visible only if the shape is the
\* one selected item of the scene
C17_HandlesOnlyForSoleSelection ==
    \A id \in SceneShapes :
        (IsBaseShape(shapes[id]) /\ shapes[id].handles_visible) =>
            selectedItems = << ShapeRef(id) >>

\* C14: serialize emits one shape entry for every shape of the scene, of
\* every variant, with ids 0..N-1 in the order of the entries; the start_id
\* and end_id of every arrow entry are ids of shape entries; and every arrow
\* of the scene whose two shapes are in the scene is emitted
C14_SerializeEmitsEveryShape ==
    (last.op = "export_json" /\ doc.version = 1) =>
        /\ Len(doc.shapes) = Cardinality(SceneShapes)
        /\ \A i \in DOMAIN doc.shapes : doc.shapes[i].id = i - 1
        /\ \A i \in DOMAIN doc.arrows :
              /\ \E j \in DOMAIN doc.shapes : doc.shapes[j].id = doc.arrows[i].start_id
              /\ \E j \in DOMAIN doc.shapes : doc.shapes[j].id = doc.arrows[i].end_id
        /\ Len(doc.arrows) =
              Cardinality({a \in SceneArrows : /\ arrows[a].start_shape \in SceneShapes
                                               /\ arrows[a].end_shape \in SceneShapes})

\* the variant tags deserialize reconstructs
KnownTags == {"DiagramRect", "DiagramOval", "DiagramDiamond", "DiagramTriangle",
              "DiagramText"}

\* the shape entries of document d with a known tag, in document order
KnownEntries(d) ==
    SelectSeq(Get(d, "shapes", << >>), LAMBDA e : Get(e, "type", "None") \in KnownTags)

\* the value of key k of entry e resolves to a reconstructed shape of d (an
\* absent key reads as None)
Resolves(d, e, k) ==
    \E i \in DOMAIN KnownEntries(d) :
        Get(KnownEntries(d)[i], "id", NoneKey) = Get(e, k, NoneKey)

\* C15: deserialize skips the shape entries of unknown tag and loads all the
\* others, in document order; it makes an arrow only of the arrow entries
\* whose start_id and end_id both resolve to a reconstructed shape; and
\* afterwards every arrow of the scene has both its shapes in the scene
C15_DeserializeSkipsAndDrops ==
    last.op = "load_json" =>
        /\ Cardinality(SceneShapes) = Len(KnownEntries(last.data))
        /\ \A i \in DOMAIN KnownEntries(last.data) :
              /\ InScene(sceneItems, ShapeRef(i))
              /\ shapes[i].kind = KnownEntries(last.data)[i].type
        /\ Cardinality(SceneArrows) =
              Len(SelectSeq(Get(last.data, "arrows", << >>),
                            LAMBDA e : /\ Resolves(last.data, e, "start_id")
                                       /\ Resolves(last.data, e, "end_id")))
        /\ \A a \in SceneArrows :
              /\ arrows[a].start_shape \in SceneShapes
              /\ arrows[a].end_shape \in SceneShapes

\* a document with an entry of unknown tag between two known ones, an arrow
\* to the unknown entry, an arrow from an id no entry has and an arrow
\* between the known ones was loaded: two shapes and one arrow
C15_Witness ==
    /\ last.op = "load_json"
    /\ Len(Get(last.data, "shapes", << >>)) = 3
    /\ Len(Get(last.data, "arrows", << >>)) = 3
    /\ SceneShapes = {1, 2}
    /\ shapes[1].kind = "DiagramRect" /\ shapes[2].kind = "DiagramDiamond"
    /\ SceneArrows = {1}
    /\ arrows[1].start_shape = 2 /\ arrows[1].end_shape = 1

\* entry e of document d names, under key k, the id that a shape entry of
\* known tag carries
Names(d, e, k) ==
    /\ k \in DOMAIN e
    /\ \E i \in DOMAIN KnownEntries(d) :
          "id" \in DOMAIN KnownEntries(d)[i] /\ KnownEntries(d)[i].id = e[k]

\* C16: deserialize of a document with missing fields completes, and makes
\* an arrow only of an arrow entry whose start_id and end_id are both present
\* and are ids that shape entries carry: entries without id, start_id or
\* end_id are not connected through the missing value
C16_NoArrowThroughMissingIds ==
    last.op = "load_json" =>
        Cardinality(SceneArrows) =
            Len(SelectSeq(Get(last.data, "arrows", << >>),
                          LAMBDA e : /\ Names(last.data, e, "start_id")
                                     /\ Names(last.data, e, "end_id")))

\* the outline and size of shape s
Geometry(s) == <<s.rect, s.shape_width, s.shape_height, s.pos>>

\* C18: a press on a handle leaves the host resizing and a release leaves it
\* idle; in every state a shape is movable exactly when it is idle; and the
\* handle position changes delivered once the host is idle again (release
\* puts the four handles back on the corners) do not change its geometry
C18_ResizeProtocol ==
    [][ /\ \A id \in ShapeIds :
              IsBaseShape(shapes'[id]) => (shapes'[id].movable <=> ~shapes'[id].resizing)
        /\ last'.op = "handle_press" =>
              /\ shapes'[last'.id].resizing
              /\ Geometry(shapes'[last'.id]) = Geometry(shapes[last'.id])
        /\ last'.op = "handle_release" =>
              /\ shapes[last'.id].resizing /\ ~shapes[last'.id].movable
              /\ ~shapes'[last'.id].resizing /\ shapes'[last'.id].movable
              /\ Geometry(shapes'[last'.id]) = Geometry(shapes[last'.id])
              /\ shapes'[last'.id].handles = handle_positions(shapes[last'.id]) ]_vars

\* a handle was released after a drag that resized its host, and the host is
\* idle and movable at the size the drag gave it
C18_Witness ==
    /\ last.op = "handle_release"
    /\ ~shapes[last.id].resizing /\ shapes[last.id].movable
    /\ shapes[last.id].shape_width # DefaultWidth(shapes[last.id].kind)
    /\ shapes[last.id].handles = handle_positions(shapes[last.id])

\* C19: creating an arrow with a null start or end shape fails silently: no
\* error is raised and no shape's list of arrows is modified
C19_NullEndpointFailsSilently ==
    [][ (last'.op = "Arrow" /\ None \in {last'.pos[1], last'.pos[2]}) =>
        /\ emitted' # << Raised("AttributeError") >>
        /\ \A t \in ShapeIds :
              IsShape(shapes[t]) => shapes'[t].arrows = shapes[t].arrows ]_vars

\* list without the occurrences of arrow id
Without(list, id) == SelectSeq(list, LAMBDA e : e # id)

\* C20: detach removes the arrow from the lists of both its shapes and leaves
\* the other arrows of those lists, and every other list, as they were; it
\* raises nothing; and a second detach, or a detach when a list no longer
\* holds the arrow, leaves every list as after the first
C20_DetachIdempotent ==
    [][ last'.op = "detach" =>
        /\ emitted' = << >>
        /\ \A t \in ShapeIds :
              IsShape(shapes[t]) =>
                  shapes'[t].arrows =
                      IF t \in {arrows[last'.id].start_shape, arrows[last'.id].end_shape}
                      THEN Without(shapes[t].arrows, last'.id)
                      ELSE shapes[t].arrows
        /\ detach(shapes', arrows'[last'.id], last'.id) = shapes'
        /\ last'.count = 0 => shapes' = shapes ]_vars

\* detach was called on an arrow no list holds any more (a second call),
\* while both shapes still list the other arrow between them
C20_Witness ==
    /\ last.op = "detach" /\ last.count = 0
    /\ arrows[last.id].start_shape = 1 /\ arrows[last.id].end_shape = 2
    /\ \E other \in ParallelIds :
          /\ other # last.id
          /\ shapes[1].arrows = << other >>
          /\ shapes[2].arrows = << other >>

C22_SetColorOnSelectionOnly ==
    [][ last'.op = "set_color" =>
        /\ \A id \in SceneShapes :
              shapes'[id] = IF shapes[id].selected
                            THEN [shapes[id] EXCEPT !.color = QColor(last'.arg)]
                            ELSE shapes[id]
        /\ \A id \in SceneArrows : ~arrows[id].selected => arrows'[id] = arrows[id]
        /\ selectedItems = << >> =>
              /\ shapes' = shapes /\ arrows' = arrows
              /\ current_color' = current_color ]_vars

\* C23: setting the label colour changes the label colour of the selected
\* shapes and arrows that have a label, and of nothing else
C23_LabelColorOnLabelledSelection ==
    [][ last'.op = "set_label_color" =>
        /\ \A id \in SceneShapes :
              shapes'[id] =
                  IF shapes[id].selected /\ IsBaseShape(shapes[id]) /\ shapes[id].label # NoText
                  THEN [shapes[id] EXCEPT !.label_color = QColor(last'.arg),
                                          !.label_item_color = QColor(last'.arg)]
                  ELSE shapes[id]
        /\ \A id \in SceneArrows :
              arrows'[id] =
                  IF arrows[id].selected /\ arrows[id].label # NoText
                  THEN [arrows[id] EXCEPT !.label_color = QColor(last'.arg),
                                          !.label_item_color = QColor(last'.arg)]
                  ELSE arrows[id] ]_vars

\* the label colour was set with a labelled and an unlabelled shape selected:
\* the first has the new colour and the second the one it was made with
C23_Witness ==
    /\ last.op = "set_label_color"
    /\ shapes[1].selected /\ shapes[1].label # NoText
    /\ shapes[1].label_color = "#ff0000" /\ shapes[1].label_item_color = "#ff0000"
    /\ shapes[2].selected /\ IsBaseShape(shapes[2]) /\ shapes[2].label = NoText
    /\ shapes[2].label_color = "#333333"

\* C24: among the items that are not texts, a font size applies to the
\* labels of the selected shapes and arrows only: a selected shape or arrow
\* without a label keeps its stored label font size; and a change of family,
\* bold or underline modifies no shape and no arrow
C24_FontSizeOnExistingLabelsOnly ==
    [][ last'.op = "set_text_settings" =>
        /\ \A id \in SceneShapes :
              (IsBaseShape(shapes[id]) /\ (shapes[id].label = NoText \/ ~shapes[id].selected))
                  => shapes'[id] = shapes[id]
        /\ \A id \in SceneArrows :
              (arrows[id].label = NoText \/ ~arrows[id].selected)
                  => arrows'[id].label_font_size = arrows[id].label_font_size
        /\ last'.arg # "font_size" =>
              /\ \A id \in SceneShapes : IsBaseShape(shapes[id]) => shapes'[id] = shapes[id]
              /\ arrows' = arrows ]_vars

\* the shapes a double-click added to the scene
Created == {id \in ShapeIds : InScene(sceneItems', ShapeRef(id))} \ SceneShapes

\* C25: a double-click creates exactly one shape, of the variant of the
\* current mode and in the current fill colour, iff the mode is a creation
\* mode and no shape lies at the position; otherwise it creates nothing;
\* the shapes there were and the arrows stay as they were
C25_DoubleClickCreatesOne ==
    [][ last'.op = "double_click" =>
        /\ \A id \in SceneShapes :
              InScene(sceneItems', ShapeRef(id)) /\ shapes'[id] = shapes[id]
        /\ arrows' = arrows
        /\ {a \in ArrowIds : InScene(sceneItems', ArrowRef(a))} = SceneArrows
        /\ IF /\ current_mode \in CreateModes
              /\ \A id \in SceneShapes : ~hits(shapes[id], last'.pos)
           THEN /\ Cardinality(Created) = 1
                /\ Len(sceneItems') = Len(sceneItems) + 1
                /\ \A id \in Created :
                      /\ shapes'[id].kind = ModeKind(current_mode)
                      /\ shapes'[id].color = current_color
           ELSE /\ Created = {}
                /\ sceneItems' = sceneItems ]_vars

\* a double-click in a creation mode landed on the one shape of the scene and
\* created nothing, and one on a free spot has made a right triangle in the
\* colour chosen before
C25_Witness ==
    /\ last.op = "double_click" /\ last.pos = <<40, 50>>
    /\ current_mode \in CreateModes
    /\ emitted = << >>
    /\ SceneShapes = {1}
    /\ shapes[1].kind = "DiagramTriangleRight" /\ shapes[1].color = "#e74c3c"

\* C26: a shape created by a double-click at P has its top-left at P minus
\* half the default width and half the default height of its variant
C26_CreatedShapeCentredOnClick ==
    (last.op = "double_click" /\ emitted # << >>) =>
        LET s == shapes[sceneItems[Len(sceneItems)][2]] IN
        IsBaseShape(s) =>
            /\ 2 * (last.pos[1] - s.pos[1]) = DefaultWidth(s.kind)
            /\ 2 * (last.pos[2] - s.pos[2]) = DefaultHeight(s.kind)

\* C27: with a source pending, a left click on empty space in Arrow or
\* Two-Way mode returns to idle (no source pending, the source no longer
\* selected) and creates no arrow: the items of the scene, the arrows and
\* every shape's list of arrows and geometry are as before
C27_EmptyClickReturnsToIdle ==
    [][ (/\ last'.op = "press" /\ last'.button = "left" /\ last'.target = "empty"
         /\ last'.arg \in ArrowModes /\ arrow_start_shape # None) =>
        /\ arrow_start_shape' = None
        /\ sceneItems' = sceneItems
        /\ arrows' = arrows
        /\ \A id \in SceneShapes :
              shapes'[id] =
                  IF id = arrow_start_shape THEN setSelected(shapes[id], FALSE)
                  ELSE shapes[id] ]_vars

\* a click on empty space ended a pending arrow from shape 1, which is still
\* in the scene with the other shape, not selected, and no arrow was made
C27_Witness ==
    /\ last.op = "press" /\ last.button = "left" /\ last.target = "empty"
    /\ last.arg \in ArrowModes /\ last.pending = 1
    /\ arrow_start_shape = None
    /\ SceneShapes = {1, 2} /\ SceneArrows = {}
    /\ ~shapes[1].selected

\* the rectangle the dragged handle and the three untouched corners span,
\* before it is normalized: from rect() for a rectangle or an oval, from
\* boundingRect() for a polygon variant
Candidate(s, h, p) ==
    candidate(IF s.kind \in RectKinds THEN s.rect ELSE boundingRect(s), h, p)

\* C28: for every variant, a handle dragged across the opposite edge, so
\* that the candidate rectangle has a negative width or height while its
\* normalized form meets the minimum size, resizes the shape to the
\* normalized rectangle
C28_CrossingDragAccepted ==
    [][ (/\ last'.op = "handle_drag"
         /\ \/ RectWidth(Candidate(shapes[last'.id], last'.handle, last'.pos)) < 0
            \/ RectHeight(Candidate(shapes[last'.id], last'.handle, last'.pos)) < 0
         /\ meets_minimum(normalized(Candidate(shapes[last'.id], last'.handle, last'.pos)))) =>
        shapes'[last'.id].rect =
            normalized(Candidate(shapes[last'.id], last'.handle, last'.pos)) ]_vars

\* the corner of rc diagonally opposite handle h
OppositeCorner(rc, h) ==
    CASE h = TOP_LEFT -> <<rc.r, rc.b>>
      [] h = TOP_RIGHT -> <<rc.l, rc.b>>
      [] h = BOTTOM_LEFT -> <<rc.r, rc.t>>
      [] OTHER -> <<rc.l, rc.t>>

\* C29: every accepted handle_resize of a resize gesture leaves the corner of
\* the outline opposite the dragged handle where it was, and the stored
\* width and height equal to the extent of the outline
C29_OppositeCornerFixed ==
    [][ (/\ last'.op = "handle_drag"
         /\ shapes'[last'.id].rect # shapes[last'.id].rect) =>
        /\ OppositeCorner(shapes'[last'.id].rect, last'.handle)
              = OppositeCorner(shapes[last'.id].rect, last'.handle)
        /\ shapes'[last'.id].shape_width = RectWidth(shapes'[last'.id].rect)
        /\ shapes'[last'.id].shape_height = RectHeight(shapes'[last'.id].rect) ]_vars

\* C30: after the release that ends a resize gesture each of the four
\* handles is at its corner of the shape's bounding rectangle, whether the
\* drags of the gesture were accepted or rejected
C30_HandlesAtCornersAfterRelease ==
    last.op = "handle_release" =>
        /\ shapes[last.id].handles[TOP_LEFT] =
              <<boundingRect(shapes[last.id]).l, boundingRect(shapes[last.id]).t>>
        /\ shapes[last.id].handles[TOP_RIGHT] =
              <<boundingRect(shapes[last.id]).r, boundingRect(shapes[last.id]).t>>
        /\ shapes[last.id].handles[BOTTOM_LEFT] =
              <<boundingRect(shapes[last.id]).l, boundingRect(shapes[last.id]).b>>
        /\ shapes[last.id].handles[BOTTOM_RIGHT] =
              <<boundingRect(shapes[last.id]).r, boundingRect(shapes[last.id]).b>>

\* a handle was released away from its corner after a drag that was
\* rejected: the shape has the size it was made with and the handle is back
C30_Witness ==
    /\ last.op = "handle_release"
    /\ last.pos # shapes[last.id].handles[last.handle]
    /\ shapes[last.id].rect = [l |-> 0, t |-> 0,
                               r |-> DefaultWidth(shapes[last.id].kind),
                               b |-> DefaultHeight(shapes[last.id].kind)]

\* a handle was released after an accepted drag: the shape has another size
\* and the handle was already on the corner it is put on
C30_WitnessAccepted ==
    /\ last.op = "handle_release"
    /\ shapes[last.id].shape_width # DefaultWidth(shapes[last.id].kind)
    /\ shapes[last.id].kind \in RectKinds

----------------------------------------------------------------------------
(* SpecLabel: labels attached to the shapes and the arrow of a scene, by   *)
(* add_label called on the host and by the right-click dialog, between     *)
(* changes of the current label colour and font size                       *)

LabelTexts == {"A", "B"}

\* host.add_label(text), called by itself; last.count is the number of
\* label items the host had before the call
attach_label(target, id, text) ==
    /\ grabber = NoGrab
    /\ IsTarget(target, id)
    /\ target # "empty"
    /\ IF target = "shape"
       THEN /\ shapes' = [shapes EXCEPT ![id] = add_label(@, text)]
            /\ UNCHANGED arrows
       ELSE /\ arrows' = [arrows EXCEPT ![id] = arrow_add_label(@, text)]
            /\ UNCHANGED shapes
    /\ emitted' = << >>
    /\ last' = [Event EXCEPT !.op = "add_label", !.target = target, !.id = id,
                             !.arg = text,
                             !.count = IF target = "shape" THEN shapes[id].label_items
                                       ELSE arrows[id].label_items,
                             !.pending = arrow_start_shape]
    /\ UNCHANGED <<sceneItems, current_mode, arrow_start_shape, current_color,
                   current_label_color, text_settings, doc, grabber, steps>>

InitLabel ==
    \E k1 \in {"DiagramRect", "DiagramDiamond"}, text \in {NoText, "A"},
       k2 \in {"DiagramOval", "DiagramText"} :
        InitScene(TwoShapes(k1, text, k2, FALSE))

NextLabel ==
    \/ \E t \in Targets, text \in LabelTexts : attach_label(t[1], t[2], text)
    \/ \E t \in Targets, ok \in BOOLEAN, text \in LabelTexts \cup {""} :
          right_press(t[1], t[2], ok, text)
    \/ scene_set_label_color("red")
    \/ set_text_settings("font_size", 20)

SpecLabel == InitLabel /\ [][NextLabel]_vars

\* the label of a host as its label item shows it
LabelItem(h) ==
    [text |-> h.label, color |-> h.label_item_color, size |-> h.label_item_size]

\* a host has no more than one label item, and has one iff it has a label
OneLabel(h) ==
    /\ h.label_items <= 1
    /\ h.label_items = 1 <=> h.label # NoText

\* what add_label(text) is to make of host h: a first label in h's label
\* colour and font size, or the label h has with only its text replaced
Attached(h, text) ==
    IF h.label = NoText
    THEN [text |-> text, color |-> h.label_color, size |-> h.label_font_size]
    ELSE [LabelItem(h) EXCEPT !.text = text]

\* C31: a shape or an arrow has at most one label however often add_label
\* is called on it: the first call makes the label in the host's label
\* colour and font size, a later call keeps that label item and its colour
\* and replaces only its text
C31_OneLabelPerHost ==
    [][ /\ \A id \in SceneShapes : OneLabel(shapes'[id])
        /\ \A id \in SceneArrows : OneLabel(arrows'[id])
        /\ (last'.op = "add_label" /\ last'.target = "shape"
             /\ ~IsText(shapes[last'.id])) =>
               /\ LabelItem(shapes'[last'.id]) = Attached(shapes[last'.id], last'.arg)
               /\ shapes'[last'.id].label_items =
                     IF shapes[last'.id].label = NoText THEN 1
                     ELSE shapes[last'.id].label_items
        /\ (last'.op = "add_label" /\ last'.target = "arrow") =>
               /\ LabelItem(arrows'[last'.id]) = Attached(arrows[last'.id], last'.arg)
               /\ arrows'[last'.id].label_items =
                     IF arrows[last'.id].label = NoText THEN 1
                     ELSE arrows[last'.id].label_items ]_vars

\* add_label was called on a shape that had a label in another colour than
\* its first one, and the label kept its colour and has the new text
C31_Witness ==
    /\ last.op = "add_label" /\ last.target = "shape" /\ last.count = 1
    /\ shapes[last.id].label = "B"
    /\ shapes[last.id].label_items = 1
    /\ shapes[last.id].label_item_color = "#ff0000"
    /\ shapes[last.id].label_item_size = 20

\* C32: a right-click on a shape or an arrow, labelled or not, answered
\* with a non-empty text ends without an error and leaves the target with
\* that text as its label, in the current label colour and the current
\* default font size; a cancelled or empty answer leaves the label as it was
C32_RightClickLabels ==
    [][ (last'.op = "press" /\ last'.button = "right") =>
        /\ \A i \in DOMAIN emitted' : emitted'[i][1] # "raised"
        /\ (last'.target = "shape" /\ ~IsText(shapes[last'.id])) =>
              LabelItem(shapes'[last'.id]) =
                  IF last'.arg \in {NoText, ""} THEN LabelItem(shapes[last'.id])
                  ELSE [text |-> last'.arg, color |-> current_label_color,
                        size |-> text_settings.font_size]
        /\ last'.target = "arrow" =>
              LabelItem(arrows'[last'.id]) =
                  IF last'.arg \in {NoText, ""} THEN LabelItem(arrows[last'.id])
                  ELSE [text |-> last'.arg, color |-> current_label_color,
                        size |-> text_settings.font_size] ]_vars

----------------------------------------------------------------------------
(* SpecReload: documents loaded over a scene in which an arrow may be      *)
(* half made, between clicks in Arrow and in Select mode, changes of the   *)
(* tool, Escape and clear_all                                              *)

EmptyDoc == [version |-> 1, shapes |-> << >>, arrows |-> << >>]

InitReload ==
    \E text \in {NoText, "A"}, k2 \in {"DiagramOval", "DiagramText"} :
        \/ InitScene(TwoShapes("DiagramRect", text, k2, FALSE))
        \/ pending_second(TwoShapes("DiagramRect", text, k2, FALSE))

NextReload ==
    \/ \E t \in Targets : press_arrow_mode(t[1], t[2])
    \/ \E t \in Targets : press_select_mode(t[1], t[2])
    \/ \E d \in TestDocs \cup {EmptyDoc} : load_json(d)
    \/ \E m \in {MODE_SELECT, MODE_ARROW} : set_mode(m)
    \/ key_escape
    \/ clear_all

SpecReload == InitReload /\ [][NextReload]_vars

\* C33: loading a document clears the scene first: afterwards the scene
\* holds exactly the shapes and arrows made from the document, as many as
\* the document yields and none of those it held before, no arrow is half
\* made, and the outcome is the same whatever the scene held
C33_LoadReplacesScene ==
    [][ last'.op = "load_json" =>
        /\ shapes' = deserialize(last'.data).sh
        /\ arrows' = deserialize(last'.data).ar
        /\ sceneItems' = deserialize(last'.data).items
        /\ Cardinality(SceneShapes') = ShapeCount(last'.data)
        /\ Cardinality(SceneArrows') = ArrowCount(last'.data)
        /\ Len(sceneItems') = ShapeCount(last'.data) + ArrowCount(last'.data)
        /\ arrow_start_shape' = None ]_vars

\* an empty document was loaded over a scene in which shape 2 was the
\* pending source of an arrow
C33_Witness ==
    /\ last.op = "load_json" /\ last.data = EmptyDoc
    /\ last.pending = 2
    /\ sceneItems = << >>
    /\ arrow_start_shape = None

\* the selection notifications among the signals of the last event
Notifications(signals) ==
    SelectSeq(signals, LAMBDA e : e[1] \in {"shape_selected", "text_selected"})

\* C34: a left click on a shape outside the Arrow and Two-Way modes emits
\* "shape selected" for that shape, followed by "text selected" iff the
\* shape is a text; a click on an arrow or on empty canvas, and any click in
\* Arrow or Two-Way mode, emits neither
C34_SelectionNotifications ==
    [][ (last'.op = "press" /\ last'.button = "left") =>
        Notifications(emitted') =
            IF last'.target = "shape" /\ last'.arg \notin ArrowModes
            THEN IF shapes[last'.id].kind = "DiagramText"
                 THEN << <<"shape_selected", last'.id>>, <<"text_selected", last'.id>> >>
                 ELSE << <<"shape_selected", last'.id>> >>
            ELSE << >> ]_vars

\* the text that is shape 2 was clicked in Select mode: "shape selected"
\* and "text selected" went out for it
C34_Witness ==
    /\ last.op = "press" /\ last.button = "left" /\ last.target = "shape"
    /\ last.arg = MODE_SELECT /\ last.id = 2
    /\ shapes[2].kind = "DiagramText"
    /\ emitted = << <<"shape_selected", 2>>, <<"text_selected", 2>> >>

\* a text was clicked in Arrow mode while it was the pending source
C34_WitnessArrowMode ==
    /\ last.op = "press" /\ last.button = "left" /\ last.target = "shape"
    /\ last.arg = MODE_ARROW /\ last.id = 2 /\ last.pending = 2
    /\ shapes[2].kind = "DiagramText"
    /\ Notifications(emitted) = << >>

\* C35: whatever mode switches, clicks in arrow mode, Delete and Escape
\* keys came before, every arrow of the scene has its start and its end
\* shape in the scene; in particular no arrow is made from a pending source
\* that was deleted
C35_ArrowEndpointsInScene ==
    \A a \in SceneArrows :
        /\ arrows[a].start_shape \in SceneShapes
        /\ arrows[a].end_shape \in SceneShapes

\* how often arrow a is in the incident-arrow list of shape s
Listed(s, a) == Cardinality({i \in DOMAIN s.arrows : s.arrows[i] = a})

\* C36: the incident-arrow lists agree with the endpoints of the arrows: an
\* arrow of the scene is in the list of a shape iff the shape is its start
\* or its end, no list has it twice, and every arrow in the list of a shape
\* of the scene is in the scene
C36_IncidentListsAgree ==
    /\ \A a \in SceneArrows : \A id \in ShapeIds :
          shapes[id] # NoShape =>
              Listed(shapes[id], a) =
                  IF id \in {arrows[a].start_shape, arrows[a].end_shape} THEN 1 ELSE 0
    /\ \A id \in SceneShapes : \A i \in DOMAIN shapes[id].arrows :
          shapes[id].arrows[i] \in SceneArrows

\* shape 1 was deleted with the arrow it shared with shape 2, which is left
\* in the scene with an empty list
C36_Witness ==
    /\ last.op = "key" /\ last.arg = "Delete" /\ last.count = 1
    /\ SceneShapes = {2} /\ SceneArrows = {}
    /\ shapes[2].arrows = << >>
    /\ emitted = << Status("Deleted") >>

\* an arrow made by two clicks is in the lists of both its endpoints
C36_WitnessCreated ==
    /\ last.op = "press" /\ emitted = << Status("Arrow created") >>
    /\ SceneArrows = {1}
    /\ shapes[arrows[1].start_shape].arrows = <<1>>
    /\ shapes[arrows[1].end_shape].arrows = <<1>>

\* C37: every arrow that a click in Arrow or Two-Way mode adds to the scene
\* starts on another shape than it ends on
C37_NoSelfLoop ==
    [][ (last'.op = "press" /\ last'.button = "left" /\ last'.arg \in ArrowModes) =>
        /\ \A a \in SceneArrows' \ SceneArrows :
              arrows'[a].start_shape # arrows'[a].end_shape
        /\ (last'.target = "shape" /\ arrow_start_shape = last'.id) =>
              /\ SceneArrows' = SceneArrows
              /\ arrows' = arrows ]_vars

\* the pending source was clicked again: the gesture ended without an arrow
C37_Witness ==
    /\ last.op = "press" /\ last.button = "left" /\ last.target = "shape"
    /\ last.arg \in ArrowModes
    /\ last.pending = last.id
    /\ SceneShapes = {1, 2} /\ SceneArrows = {}
    /\ emitted = << Status("Cancelled") >>

\* C38: a pending arrow source is recorded only while the tool is Arrow or
\* Two-Way: there is none in any other mode, and none right after set_mode,
\* Escape or clear_all
C38_PendingOnlyInArrowModes ==
    /\ current_mode \notin ArrowModes => arrow_start_shape = None
    /\ last.op \in {"set_mode", "clear_all"} => arrow_start_shape = None
    /\ (last.op = "key" /\ last.arg = "Escape") => arrow_start_shape = None

\* the tool was changed from Arrow to Arrow while shape 2 was pending
C38_Witness ==
    /\ last.op = "set_mode" /\ last.arg = MODE_ARROW /\ last.pending = 2
    /\ current_mode = MODE_ARROW
    /\ arrow_start_shape = None
    /\ 2 \in SceneShapes

\* Escape and clear_all came while a source was pending
C38_WitnessEscape ==
    /\ \/ last.op = "key" /\ last.arg = "Escape"
       \/ last.op = "clear_all"
    /\ last.pending # None
    /\ arrow_start_shape = None

----------------------------------------------------------------------------
(* SpecDelete: Delete on every selection of shapes and arrows, in a scene  *)
(* of two shapes and an arrow and in a loaded scene whose arrow starts and *)
(* ends on the same shape                                                  *)

LoopDoc == [version |-> 1,
            shapes |-> << [id |-> 0, type |-> "DiagramRect", x |-> 0, y |-> 0],
                          [id |-> 1, type |-> "DiagramOval", x |-> 200, y |-> 0] >>,
            arrows |-> << [start_id |-> 0, end_id |-> 0] >>]

NextDelete ==
    \/ \E m \in {MODE_SELECT, MODE_ARROW} : set_mode(m)
    \/ \E t \in Targets : press_select_mode(t[1], t[2])
    \/ \E t \in Targets : press_arrow_mode(t[1], t[2])
    \/ key_delete
    \/ load_json(LoopDoc)

SpecDelete == InitReload /\ [][NextDelete]_vars

\* the selected shapes and arrows of the scene
SelectedShapes == {id \in SceneShapes : shapes[id].selected}
SelectedArrows == {a \in SceneArrows : arrows[a].selected}

\* C39: Delete removes the selected items and the arrows incident to the
\* selected shapes, and nothing else: a shape that is not selected stays
\* with its geometry, an arrow that is neither selected nor incident to a
\* selected shape stays in the scene and in the lists of its endpoints, and
\* a selected arrow that is incident to a selected shape makes no
\* difference and no error
C39_DeleteFrame ==
    [][ (last'.op = "key" /\ last'.arg = "Delete") =>
        /\ SceneShapes' = SceneShapes \ SelectedShapes
        /\ SceneArrows' = SceneArrows \ (SelectedArrows \cup incident_to_selected)
        /\ \A id \in SceneShapes' :
              /\ Geometry(shapes'[id]) = Geometry(shapes[id])
              /\ shapes'[id].arrows =
                    SelectSeq(shapes[id].arrows, LAMBDA a : a \in SceneArrows')
        /\ \A a \in SceneArrows' :
              /\ arrows'[a] = arrows[a]
              /\ arrows[a].start_shape \in SceneShapes =>
                    a \in Range(shapes'[arrows[a].start_shape].arrows)
              /\ arrows[a].end_shape \in SceneShapes =>
                    a \in Range(shapes'[arrows[a].end_shape].arrows)
        /\ SelectedArrows \subseteq incident_to_selected =>
              sceneItems' =
                  delete_each(SelectSeq(selectedItems, LAMBDA e : e[1] = "shape"),
                              shapes, arrows, sceneItems).items
        /\ \A i \in DOMAIN emitted' : emitted'[i][1] # "raised" ]_vars

\* Delete came while the arrow and both shapes were selected: nothing is left
C39_Witness ==
    /\ last.op = "key" /\ last.arg = "Delete" /\ last.count = 1
    /\ last.pending = 2
    /\ sceneItems = << >>
    /\ emitted = << Status("Deleted") >>

\* Delete came while only the shape without an arrow was selected: the
\* other shape and the arrow that starts and ends on it are left
C39_WitnessFrame ==
    /\ last.op = "key" /\ last.arg = "Delete" /\ last.count = 0
    /\ SceneShapes = {1} /\ SceneArrows = {1}
    /\ arrows[1].start_shape = 1 /\ arrows[1].end_shape = 1
    /\ shapes[1].arrows = <<1>>

\* the heads of arrow a: one at the end of its line, and one at the start
\* of its line exactly when a is bidirectional
Heads(a) ==
    /\ a.end_head = a.line[2]
    /\ a.has_start_head = a.bidirectional
    /\ a.start_head = IF a.bidirectional THEN a.line[1] ELSE NoPoint

\* C40: every arrow of the scene has a head at its end, and a head at its
\* start iff it is bidirectional; the flag and the presence of the start
\* head stay what the constructor made them
C40_ArrowHeads ==
    /\ [](\A a \in SceneArrows : Heads(arrows[a]))
    /\ [][ \A a \in SceneArrows \cap SceneArrows' :
              /\ arrows'[a].bidirectional = arrows[a].bidirectional
              /\ arrows'[a].has_start_head = arrows[a].has_start_head ]_vars

\* a shape was moved and took along the ends and the two heads of its
\* bidirectional arrow
C40_Witness ==
    /\ last.op = "move"
    /\ SceneArrows = {1}
    /\ arrows[1].bidirectional /\ arrows[1].has_start_head
    /\ arrows[1].start_head = arrows[1].line[1]
    /\ arrows[1].end_head = arrows[1].line[2]
    /\ arrows[1].line # TwoShapes(shapes[1].kind, shapes[1].label, shapes[2].kind, TRUE).ar[1].line

====
